---------------------------- MODULE Spec2Model ----------------------------
(***************************************************************************)
(* A model of tvguide2xmltv.py: the disk cache (CacheManager), the         *)
(* listings client (TVGuideAPIClient.fetch_listings) and the hour/day      *)
(* range fetchers with their merge.                                        *)
(*                                                                         *)
(* Python values are modelled as records with a "kind" field.  A file is   *)
(* [kind |-> "absent"] or [kind, doc, age]  : kind "json" is a file that   *)
(* holds the complete json.dump of doc; the other kinds are the damaged    *)
(* on-disk states (empty, truncated, notjson, undecodable bytes).  json    *)
(* values born from a JSON parse survive json.dump/json.load unchanged,    *)
(* which is why a "json" file carries the decoded value itself.            *)
(* A call returns [kind |-> "return", value] or [kind |-> "raise", exc].   *)
(*                                                                         *)
(* The clock is unbounded, so every recorded time t (a file's mtime, a     *)
(* catalogue timestamp) is kept as its age now - t, in seconds, and the    *)
(* passing of d seconds adds d to every age.  Ages saturate at AgeCap;     *)
(* every TTL of the model is at most AgeCap, so age < ttl is decided       *)
(* exactly.                                                                *)
(***************************************************************************)
EXTENDS Integers, Sequences, FiniteSets, TLC

VARIABLES
    files,      \* cache_dir: file name -> file (entry files and metadata.json)
    ret,        \* the last operation: its arguments, what it saw, what it did
    stored,     \* ghost: cache key -> the payload last written under that key
    rng         \* the operation in progress: a range fetch (fetch_multiple_hours /
                \* _days), or a put and a get of two processes side by side

vars == <<files, ret, stored, rng>>

----------------------------------------------------------------------------
(* Bounds of the model *)

AgeCap == 2
MaxRetries == 3
MaxNowDays == 2

(* Values the callers pass *)
TTLChoices == 1..AgeCap
RetryChoices == 0..MaxRetries

Key(p, r, d, h) == [platform |-> p, region |-> r, date |-> d, hour |-> h]

(* The key of the client specification, and the keys of the cache          *)
(* specification: two keys that differ only in where the '_' falls between  *)
(* platform and region.                                                     *)
ClientKey == Key("sky", "london", "2025-01-15", 20)

CacheKeys ==
    { Key("sky_uk", "london", "2025-01-15", 20),
      Key("sky", "uk_london", "2025-01-15", 20) }

(* The days and hours of the range specification *)
DateSeq == <<"2025-01-15", "2025-01-16">>
Hours == {20, 21}

RangeKeys ==
    { Key("sky", "london", DateSeq[d], h) : d \in DOMAIN DateSeq, h \in Hours }

Keys == CacheKeys \cup {ClientKey} \cup RangeKeys

----------------------------------------------------------------------------
(* Payloads: JSON arrays of channel objects *)

Sched(p, s) == [pa_id |-> p, start_at |-> s]

Chan(p, slug, title, scheds) ==
    [pa_id |-> p, slug |-> slug, title |-> title, schedules |-> scheds]

E1 == Sched(100, "2025-01-15T20:00:00Z")
E2 == Sched(101, "2025-01-15T20:30:00Z")
E3 == Sched(100, "2025-01-15T21:00:00Z")

PayloadA == << Chan(1, "bbc-one", "BBC One", <<E1, E2>>) >>
PayloadB == << Chan(1, "bbc-one", "BBC 1", <<E2, E3>>) >>

(* A schedule list that repeats an entry, and a response in which a        *)
(* channel appears twice, after a second channel.                           *)
PayloadC == << Chan(1, "bbc-one", "BBC 1", <<E2, E3, E3>>) >>
PayloadD == << Chan(2, "itv", "ITV", <<E1>>),
               Chan(1, "bbc-one", "BBC One", <<E3>>),
               Chan(1, "bbc-one", "BBC Two", <<E1, E1>>) >>

ClientPayloads == {PayloadA, PayloadB}

(* What the API may answer for an hour of the range specification: hour 21  *)
(* overlaps hour 20 in E2 when hour 20 is PayloadA.                         *)
Listings(hour) ==
    IF hour = 20 THEN {PayloadA, PayloadD} ELSE {PayloadB, PayloadC}

----------------------------------------------------------------------------
(* Python exceptions and their classes *)

Exc(type, text, arg) == [type |-> type, text |-> text, arg |-> arg]

(* type -> its base classes (itself included) *)
Bases(type) ==
    CASE type = "JSONDecodeError"    -> {"JSONDecodeError", "ValueError"}
      [] type = "UnicodeDecodeError" -> {"UnicodeDecodeError", "ValueError"}
      [] type = "FileNotFoundError"  -> {"FileNotFoundError", "OSError", "IOError"}
      [] type = "OSError"            -> {"OSError", "IOError"}
      [] type = "RequestException"   -> {"RequestException", "OSError", "IOError"}
      [] OTHER                       -> {type}

IsInstance(exc, classes) == Bases(exc.type) \cap classes # {}

Return(v) == [kind |-> "return", value |-> v]
Raise(e) == [kind |-> "raise", exc |-> e]

PyNone == [kind |-> "None"]
PyData(d) == [kind |-> "data", data |-> d]

----------------------------------------------------------------------------
(* The file system under cache_dir *)

NoFile == [kind |-> "absent"]
File(kind, doc, age) == [kind |-> kind, doc |-> doc, age |-> age]

DamagedKinds == {"empty", "truncated", "notjson", "undecodable"}

Exists(fs, name) == fs[name].kind # "absent"

(* open(name, 'r', encoding='utf-8') and json.load: fault is what the read  *)
(* meets: "none", "vanished" (the file was removed since it was last        *)
(* looked at) or "ioerror" (the read fails).                                *)
ReadJson(fs, name, fault) ==
    CASE fault = "vanished" \/ ~Exists(fs, name)
            -> Raise(Exc("FileNotFoundError", "No such file", name))
      [] fault = "ioerror"
            -> Raise(Exc("OSError", "Input/output error", name))
      [] fs[name].kind = "undecodable"
            -> Raise(Exc("UnicodeDecodeError", "codec can't decode byte", name))
      [] fs[name].kind \in {"empty", "truncated", "notjson"}
            -> Raise(Exc("JSONDecodeError", "Expecting value", name))
      [] OTHER -> Return(fs[name].doc)

(* open(name, 'w', encoding='utf-8') and json.dump: fault is "none",        *)
(* "open" (the open fails, the file is untouched) or "write" (the file is   *)
(* opened, hence truncated, and the write fails part-way).                  *)
WriteJson(fs, name, doc, fault) ==
    CASE fault = "open"  -> [fs |-> fs, err |-> TRUE]
      [] fault = "write" -> [fs |-> [fs EXCEPT ![name] = File("truncated", <<>>, 0)],
                             err |-> TRUE]
      [] OTHER           -> [fs |-> [fs EXCEPT ![name] = File("json", doc, 0)],
                             err |-> FALSE]

----------------------------------------------------------------------------
(* CacheManager *)

MetadataFile == "metadata.json"

CacheKey(key) ==
    key.platform \o "_" \o key.region \o "_" \o key.date \o "_" \o ToString(key.hour)

get_cache_filename(key) == CacheKey(key) \o ".json"

EntryFiles == { get_cache_filename(k) : k \in Keys }
FileNames == EntryFiles \cup {MetadataFile}

(* A JSON object is a function from its keys; any other JSON value is not. *)
IsDict(doc) == doc.kind = "dict"
EmptyDict == [kind |-> "dict", items |-> <<>>]

load_metadata(fs, fault) ==
    IF Exists(fs, MetadataFile)
    THEN LET r == ReadJson(fs, MetadataFile, fault) IN
         IF r.kind = "raise"
         THEN IF IsInstance(r.exc, {"JSONDecodeError", "IOError"})
              THEN Return(EmptyDict)
              ELSE r
         ELSE r
    ELSE Return(EmptyDict)

save_metadata(fs, metadata, fault) ==
    WriteJson(fs, MetadataFile, metadata, fault).fs

(* Two variants of the validity test, against which the properties of the  *)
(* cache are tried: the comparison reversed, and the boundary included.     *)
is_cache_valid_reversed(fs, cache_file, cache_ttl) ==
    /\ Exists(fs, cache_file)
    /\ fs[cache_file].age >= cache_ttl

is_cache_valid_inclusive(fs, cache_file, cache_ttl) ==
    /\ Exists(fs, cache_file)
    /\ fs[cache_file].age <= cache_ttl

is_cache_valid(fs, cache_file, cache_ttl) ==
    IF ~Exists(fs, cache_file)
    THEN FALSE
    ELSE fs[cache_file].age < cache_ttl

get_cached_data(fs, key, cache_ttl, fault) ==
    LET cache_file == get_cache_filename(key) IN
    IF is_cache_valid(fs, cache_file, cache_ttl)
    THEN LET r == ReadJson(fs, cache_file, fault) IN
         IF r.kind = "raise"
         THEN IF IsInstance(r.exc, {"JSONDecodeError", "IOError"})
              THEN Return(PyNone)
              ELSE r
         ELSE Return(PyData(r.value))
    ELSE Return(PyNone)

(* One catalogue record; 'timestamp' is datetime.now() at the write. *)
MetaRecord(key, cache_file) ==
    [timestamp |-> 0, file |-> cache_file, platform |-> key.platform,
     region |-> key.region, date |-> key.date, hour |-> key.hour]

(* metadata[cache_key] = record: item assignment works on a dict only. *)
SetItem(metadata, cache_key, record) ==
    [kind |-> "dict", items |-> (cache_key :> record) @@ metadata.items]

(* A variant that writes nothing, against which the caching of a fetched   *)
(* payload is tried.                                                        *)
save_cached_data_nowhere(fs, key, data, io) ==
    [fs |-> fs, out |-> Return(PyNone)]

(* A variant that records the entry in the catalogue and does not write    *)
(* its file, against which the resumption of an aborted range is tried.     *)
save_cached_data_catalogue_only(fs, key, data, io) ==
    LET m == load_metadata(fs, io.mload) IN
    IF m.kind = "return" /\ IsDict(m.value)
    THEN [fs |-> save_metadata(fs, SetItem(m.value, CacheKey(key),
                                           MetaRecord(key, get_cache_filename(key))),
                               io.msave),
          out |-> Return(PyNone)]
    ELSE [fs |-> fs, out |-> Return(PyNone)]

(* io names the fault met at each step: [entry, mload, msave].  Gives the   *)
(* files afterwards and how the call ended.                                 *)
save_cached_data(fs, key, data, io) ==
    LET cache_file == get_cache_filename(key)
        w == WriteJson(fs, cache_file, data, io.entry)
    IN  IF w.err
        THEN [fs |-> w.fs, out |-> Return(PyNone)]          \* except IOError: pass
        ELSE LET m == load_metadata(w.fs, io.mload) IN
             IF m.kind = "raise"
             THEN IF IsInstance(m.exc, {"IOError"})
                  THEN [fs |-> w.fs, out |-> Return(PyNone)]
                  ELSE [fs |-> w.fs, out |-> m]
             ELSE IF ~IsDict(m.value)
             THEN [fs |-> w.fs,
                   out |-> Raise(Exc("TypeError", "does not support item assignment",
                                     CacheKey(key)))]
             ELSE [fs |-> save_metadata(w.fs,
                                        SetItem(m.value, CacheKey(key),
                                                MetaRecord(key, cache_file)),
                                        io.msave),
                   out |-> Return(PyNone)]

(* A variant that gives up at the first file it cannot delete, against     *)
(* which the clearing of the cache is tried.                                *)
clear_cache_until_failure(fs, undeletable) ==
    IF \E n \in undeletable : Exists(fs, n)
    THEN fs
    ELSE [n \in DOMAIN fs |-> NoFile]

(* undeletable: the files whose os.unlink raises OSError *)
clear_cache(fs, undeletable) ==
    [n \in DOMAIN fs |-> IF n \in undeletable THEN fs[n] ELSE NoFile]

(* The sum of the values of a function of finite domain. *)
RECURSIVE Sum(_)
Sum(f) ==
    IF DOMAIN f = {} THEN 0
    ELSE LET x == CHOOSE y \in DOMAIN f : TRUE
         IN  f[x] + Sum([y \in DOMAIN f \ {x} |-> f[y]])

(* os.path.getsize, lines 149-150: the length of what the file holds.  A    *)
(* complete json.dump is measured by its brackets and the characters of its *)
(* titles, start times and catalogue keys; an empty file holds nothing, and *)
(* any other damaged file holds something.                                  *)
getsize(fs, name) ==
    LET schedule_size(sch) == 2 + Len(sch.start_at)
        channel_size(ch) ==
            2 + Len(ch.title)
              + Sum([i \in DOMAIN ch.schedules |-> schedule_size(ch.schedules[i])])
    IN  CASE ~Exists(fs, name) -> 0
          [] fs[name].kind = "empty" -> 0
          [] fs[name].kind # "json" -> 1
          [] name = MetadataFile ->
                IF IsDict(fs[name].doc)
                THEN 2 + Sum([k \in DOMAIN fs[name].doc.items |-> 2 + Len(k)])
                ELSE 2
          [] OTHER ->
                2 + Sum([i \in DOMAIN fs[name].doc |-> channel_size(fs[name].doc[i])])

(* filename.endswith('.json'): every file the program writes under          *)
(* cache_dir carries the suffix, metadata.json included.                    *)
EndsWithJson(name) == name \in FileNames

(* Lines 138-152: every regular file of cache_dir named *.json is counted. *)
get_cache_stats(fs) ==
    LET counted == { n \in DOMAIN fs : Exists(fs, n) /\ EndsWithJson(n) }
    IN  [files |-> Cardinality(counted),
         total_size |-> Sum([n \in counted |-> getsize(fs, n)])]

----------------------------------------------------------------------------
(* The passing of time *)

Min(a, b) == IF a < b THEN a ELSE b

AgeOf(a, d) == Min(a + d, AgeCap)

(* The catalogue's timestamps grow older with everything else. *)
AgeDoc(name, kind, doc, d) ==
    IF name = MetadataFile /\ kind = "json" /\ IsDict(doc)
    THEN [doc EXCEPT !.items =
            [k \in DOMAIN doc.items |->
                [doc.items[k] EXCEPT !.timestamp = AgeOf(@, d)]]]
    ELSE doc

(* No code reads the mtime of metadata.json: it is not tracked. *)
Elapse(fs, d) ==
    [n \in DOMAIN fs |->
        IF Exists(fs, n)
        THEN File(fs[n].kind, AgeDoc(n, fs[n].kind, fs[n].doc, d),
                  IF n = MetadataFile THEN 0 ELSE AgeOf(fs[n].age, d))
        ELSE fs[n]]

----------------------------------------------------------------------------
(* TVGuideAPIClient.fetch_listings *)

(* What one HTTP attempt meets.  "conn_error" is session.get raising,       *)
(* "http_error" is raise_for_status raising: both are RequestExceptions.    *)
(* "bad_json" is a body response.json() cannot decode; "object" and         *)
(* "scalar" are JSON values that are not arrays; "list" is a JSON array.    *)
(* A variant that retries an unparsable body as it would a transport       *)
(* failure, against which the no-retry property is tried.                   *)
TransportFailuresWithBadJson == {"conn_error", "http_error", "bad_json"}

TransportFailures == {"conn_error", "http_error"}
Resp(kind) == [kind |-> kind, data |-> <<>>]
RespList(data) == [kind |-> "list", data |-> data]

Cfg(mr, uc, ttl, co) ==
    [max_retries |-> mr, use_cache |-> uc, cache_ttl |-> ttl, cache_only |-> co]

Http(attempt) == [ev |-> "http", n |-> attempt]
Sleep(secs) == [ev |-> "sleep", n |-> secs]

CacheMissText == "No cached data available"

(* A variant with linear backoff, against which the retry policy is tried. *)
wait_time_linear(attempt) == attempt + 1

(* Exponential backoff: 1s, 2s, 4s *)
wait_time(attempt) == 2^attempt

(* The retry loop from iteration `attempt` on.  responses[i+1] is what       *)
(* attempt i meets; log is the HTTP requests and sleeps so far.              *)
RECURSIVE attempts(_, _, _, _, _, _, _, _)
attempts(fs, key, cfg, responses, io, attempt, last_exception, log) ==
    IF attempt > cfg.max_retries
    THEN [fs |-> fs, log |-> log,
          out |-> Raise(Exc("RequestException", "API request failed after",
                            [attempts |-> cfg.max_retries + 1,
                             last |-> last_exception]))]
    ELSE LET response == responses[attempt + 1]
             log1 == Append(log, Http(attempt))
         IN  CASE response.kind \in TransportFailures ->
                    IF attempt < cfg.max_retries
                    THEN attempts(Elapse(fs, wait_time(attempt)), key, cfg,
                                  responses, io, attempt + 1, response.kind,
                                  Append(log1, Sleep(wait_time(attempt))))
                    ELSE attempts(fs, key, cfg, responses, io,
                                  cfg.max_retries + 1, response.kind, log1)
               [] response.kind = "bad_json" ->
                    [fs |-> fs, log |-> log1,
                     out |-> Raise(Exc("ValueError", "Invalid JSON response from API",
                                       response.kind))]
               [] response.kind # "list" ->
                    [fs |-> fs, log |-> log1,
                     out |-> Raise(Exc("ValueError",
                                       "Expected JSON array from API response",
                                       response.kind))]
               [] OTHER ->
                    IF cfg.use_cache
                    THEN LET s == save_cached_data(fs, key, response.data, io) IN
                         IF s.out.kind = "raise"
                         THEN [fs |-> s.fs, log |-> log1, out |-> s.out]
                         ELSE [fs |-> s.fs, log |-> log1,
                               out |-> Return(response.data)]
                    ELSE [fs |-> fs, log |-> log1, out |-> Return(response.data)]

(* A variant that removes the entry it could not use before it turns to    *)
(* the API, against which the effect of a failed fetch on the cache is      *)
(* tried.                                                                   *)
fetch_listings_dropping_entry(fs, key, cfg, responses, io) ==
    LET cached == IF cfg.use_cache
                  THEN get_cached_data(fs, key, cfg.cache_ttl, io.read)
                  ELSE Return(PyNone)
    IN  CASE cached.kind = "raise" ->
                [fs |-> fs, log |-> <<>>, out |-> cached]
          [] cached.value # PyNone ->
                [fs |-> fs, log |-> <<>>, out |-> Return(cached.value.data)]
          [] cfg.cache_only ->
                [fs |-> fs, log |-> <<>>,
                 out |-> Raise(Exc("ValueError", CacheMissText, CacheKey(key)))]
          [] OTHER ->
                attempts([fs EXCEPT ![get_cache_filename(key)] = NoFile],
                         key, cfg, responses, io, 0, "None", <<>>)

(* io: [read, entry, mload, msave], the faults the cache's file accesses    *)
(* meet.  Gives [fs, out, log].                                             *)
fetch_listings(fs, key, cfg, responses, io) ==
    LET cached == IF cfg.use_cache
                  THEN get_cached_data(fs, key, cfg.cache_ttl, io.read)
                  ELSE Return(PyNone)
    IN  CASE cached.kind = "raise" ->
                [fs |-> fs, log |-> <<>>, out |-> cached]
          [] cached.value # PyNone ->
                [fs |-> fs, log |-> <<>>, out |-> Return(cached.value.data)]
          [] cfg.cache_only ->
                [fs |-> fs, log |-> <<>>,
                 out |-> Raise(Exc("ValueError", CacheMissText, CacheKey(key)))]
          [] OTHER ->
                attempts(fs, key, cfg, responses, io, 0, "None", <<>>)

----------------------------------------------------------------------------
(* State and environment *)

NoFaults == [read |-> "none", entry |-> "none", mload |-> "none", msave |-> "none"]

(* At most one file access of a call meets a fault. *)
ReadFaults ==
    { [NoFaults EXCEPT !.read = f] : f \in {"vanished", "ioerror"} }
WriteFaults ==
    { [NoFaults EXCEPT !.entry = f] : f \in {"open", "write"} }
    \cup { [NoFaults EXCEPT !.mload = f] : f \in {"ioerror"} }
    \cup { [NoFaults EXCEPT !.msave = f] : f \in {"open", "write"} }

NotStored == [kind |-> "None"]
Stored(data, age) == [kind |-> "data", data |-> data, age |-> age]

ElapseStored(st, d) ==
    [k \in DOMAIN st |->
        IF st[k] = NotStored THEN NotStored
        ELSE Stored(st[k].data, AgeOf(st[k].age, d))]

(* The ghost after a put of data under key that met entry fault `fault`. *)
StoredAfterPut(st, key, data, fault) ==
    [st EXCEPT ![key] = IF fault = "none" THEN Stored(data, 0) ELSE NotStored]

Idle == [pc |-> "idle"]

(* The caller is between two operations. *)
NoCall == [op |-> "idle"]

Init ==
    /\ files = [n \in FileNames |-> NoFile]
    /\ ret = NoCall
    /\ stored = [k \in Keys |-> NotStored]
    /\ rng = Idle

(* Time passes. *)
Tick ==
    /\ ret = NoCall
    /\ files' = Elapse(files, 1)
    /\ stored' = ElapseStored(stored, 1)
    /\ UNCHANGED <<ret, rng>>

(* The disk or another program damages a cache file. *)
Corrupt ==
    /\ ret = NoCall
    /\ \E n \in FileNames :
        /\ Exists(files, n)
        /\ \E damaged \in { File(k, <<>>, files[n].age) : k \in DamagedKinds }
                          \cup (IF n = MetadataFile
                                THEN {File("json", [kind |-> "list"], files[n].age)}
                                ELSE {}) :
              files' = [files EXCEPT ![n] = damaged]
        /\ stored' = [k \in Keys |->
                        IF get_cache_filename(k) = n THEN NotStored ELSE stored[k]]
        /\ UNCHANGED <<ret, rng>>

(* main --clear-cache *)
ClearCache ==
    /\ ret = NoCall
    /\ rng = Idle
    /\ \E undeletable \in {{}} \cup { {n} : n \in FileNames } :
        /\ files' = clear_cache(files, undeletable)
        /\ ret' = [op |-> "clear", undeletable |-> undeletable, pre |-> files]
        /\ stored' = [k \in Keys |-> NotStored]
        /\ UNCHANGED rng

----------------------------------------------------------------------------
(* The client: one call of fetch_listings (main's single-hour mode) *)

Finals == { RespList(d) : d \in ClientPayloads }
          \cup { Resp(k) : k \in {"bad_json", "object", "scalar"} }

(* Attempt i fails at transport level for i < failures (alternately a       *)
(* connection error and an HTTP error status) and meets `final` from then   *)
(* on: the loop never looks past the first attempt that does not fail.      *)
Responses(mr, failures, final) ==
    [i \in 1..(mr + 1) |->
        IF i <= failures
        THEN Resp(IF i % 2 = 1 THEN "conn_error" ELSE "http_error")
        ELSE final]

SecondsSlept(log) ==
    LET RECURSIVE sum(_)
        sum(i) == IF i > Len(log) THEN 0
                  ELSE (IF log[i].ev = "sleep" THEN log[i].n ELSE 0) + sum(i + 1)
    IN sum(1)

FetchCall(key, cfg, failures, final, io) ==
    LET cache_file == get_cache_filename(key)
        r == fetch_listings(files, key, cfg,
                            Responses(cfg.max_retries, failures, final), io)
    IN  /\ files' = r.fs
        /\ ret' = [op |-> "fetch", key |-> key, cfg |-> cfg,
                   pre |-> files[cache_file], premeta |-> files[MetadataFile],
                   failures |-> failures, final |-> final, io |-> io,
                   out |-> r.out, log |-> r.log]
        /\ stored' =
             LET aged == ElapseStored(stored, SecondsSlept(r.log)) IN
             IF cfg.use_cache /\ failures <= cfg.max_retries /\ final.kind = "list"
                /\ r.log # <<>>
             THEN StoredAfterPut(aged, key, final.data, io.entry)
             ELSE aged

FetchListings ==
    /\ ret = NoCall
    /\ \E mr \in RetryChoices, uc \in BOOLEAN, ttl \in TTLChoices, co \in BOOLEAN :
       \E failures \in 0..(mr + 1), final \in Finals :
       \E io \in {NoFaults}
                 \cup (IF uc /\ Exists(files, get_cache_filename(ClientKey))
                       THEN ReadFaults ELSE {})
                 \cup (IF uc /\ ~co /\ failures <= mr /\ final.kind = "list"
                       THEN WriteFaults ELSE {}) :
          /\ (co \/ failures = mr + 1) => final = Resp("bad_json")
          /\ co => failures = 0
          /\ FetchCall(ClientKey, Cfg(mr, uc, ttl, co), failures, final, io)
    /\ UNCHANGED rng

(* The caller has taken the result of the last operation. *)
Done ==
    /\ ret # NoCall
    /\ ret' = NoCall
    /\ UNCHANGED <<files, stored, rng>>

NextClient == FetchListings \/ Done \/ Tick \/ Corrupt \/ ClearCache

SpecClient == Init /\ [][NextClient]_vars

----------------------------------------------------------------------------
(* The cache on its own: CacheManager's operations called one after another *)

(* The keys the callers of the cache use: the two that differ in where the *)
(* '_' falls, and a third, under which one payload is put and no file       *)
(* access meets a fault.                                                    *)
CachedKeys == CacheKeys \cup {ClientKey}

CachePut ==
    /\ ret = NoCall
    /\ \E key \in CachedKeys, data \in ClientPayloads, io \in {NoFaults} \cup WriteFaults :
          LET r == save_cached_data(files, key, data, io) IN
          /\ (key = ClientKey) => (data = PayloadA /\ io = NoFaults)
          /\ files' = r.fs
          /\ ret' = [op |-> "put", key |-> key, data |-> data, io |-> io,
                     out |-> r.out]
          /\ stored' = StoredAfterPut(stored, key, data, io.entry)
    /\ UNCHANGED rng

CacheGet ==
    /\ ret = NoCall
    /\ \E key \in CachedKeys, ttl \in TTLChoices :
       \E fault \in {"none"} \cup (IF Exists(files, get_cache_filename(key))
                                   THEN {"vanished", "ioerror"} ELSE {}) :
          /\ (key = ClientKey) => fault = "none"
          /\ ret' = [op |-> "get", key |-> key, ttl |-> ttl, fault |-> fault,
                     pre |-> files[get_cache_filename(key)],
                     out |-> get_cached_data(files, key, ttl, fault)]
    /\ UNCHANGED <<files, stored, rng>>

(* main --cache-stats *)
CacheStats ==
    /\ ret = NoCall
    /\ ret' = [op |-> "stats", out |-> get_cache_stats(files)]
    /\ UNCHANGED <<files, stored, rng>>

NextCache == CachePut \/ CacheGet \/ Done \/ Tick \/ ClearCache \/ CacheStats

SpecCache == Init /\ [][NextCache]_vars

----------------------------------------------------------------------------
(* The range fetchers: fetch_multiple_hours and fetch_multiple_days, one    *)
(* call of fetch_listings per step                                          *)

schedule_key(schedule) == <<schedule.pa_id, schedule.start_at>>

(* A variant that stops at the first schedule it appends, against which    *)
(* the associativity of the merge is tried.                                 *)
merge_schedules_first_new(schedules, incoming) ==
    LET existing_schedules == { schedule_key(schedules[i]) : i \in DOMAIN schedules }
        new == SelectSeq(incoming,
                         LAMBDA sch : schedule_key(sch) \notin existing_schedules)
    IN  schedules \o SubSeq(new, 1, IF new = <<>> THEN 0 ELSE 1)

(* Lines 464-468: the keys of the channel's list are collected once, before *)
(* the incoming schedules are looked at.                                    *)
merge_schedules(schedules, incoming) ==
    LET existing_schedules == { schedule_key(schedules[i]) : i \in DOMAIN schedules }
    IN  schedules \o SelectSeq(incoming,
                               LAMBDA sch : schedule_key(sch) \notin existing_schedules)

(* channels_dict is the sequence of its values in insertion order. *)
merge_channel(channels_dict, channel) ==
    IF \A i \in DOMAIN channels_dict : channels_dict[i].pa_id # channel.pa_id
    THEN Append(channels_dict, channel)
    ELSE [i \in DOMAIN channels_dict |->
            IF channels_dict[i].pa_id = channel.pa_id
            THEN [channels_dict[i] EXCEPT
                    !.schedules = merge_schedules(@, channel.schedules)]
            ELSE channels_dict[i]]

RECURSIVE merge_channels(_, _)
merge_channels(channels_dict, data) ==
    IF data = <<>> THEN channels_dict
    ELSE merge_channels(merge_channel(channels_dict, Head(data)), Tail(data))

(* datetime.strptime(date, '%Y-%m-%d') as a day number, 0 when the string   *)
(* does not parse; the month and the day need no leading zero.              *)
strptime(date) ==
    CASE date \in {"2025-01-15", "2025-1-15"} -> 1
      [] date = "2025-01-16" -> 2
      [] date = "2025-01-17" -> 3
      [] date = "2025-01-18" -> 4
      [] date = "2025-01-19" -> 5
      [] date = "2025-01-20" -> 6
      [] date = "2025-01-21" -> 7
      [] date = "2025-01-22" -> 8
      [] date = "2025-01-23" -> 9
      [] date = "2025-01-24" -> 10
      [] OTHER -> 0

(* A variant that formats every day as the first, against which the order  *)
(* of the requests is tried.                                                *)
strftime_first(day) == DateSeq[1]

(* strftime('%Y-%m-%d') of a day number *)
Calendar ==
    <<"2025-01-15", "2025-01-16", "2025-01-17", "2025-01-18", "2025-01-19",
      "2025-01-20", "2025-01-21", "2025-01-22", "2025-01-23", "2025-01-24">>

strftime(day) == Calendar[day]

(* The (date, hour) pairs the loops of fetch_multiple_days (line 526) and   *)
(* fetch_multiple_hours (line 438) pass to fetch_listings when no fetch     *)
(* fails, in order: every day from start_dt to end_dt, and on every day     *)
(* the hours from start_hour to end_hour.                                   *)
slots(start_dt, end_dt, start_hour, end_hour) ==
    LET hours == end_hour - start_hour + 1
        days == end_dt - start_dt + 1
    IN  [k \in 1..(days * hours) |->
            << strftime(start_dt + ((k - 1) \div hours)),
               start_hour + ((k - 1) % hours) >>]

StartDates == {"2025-01-15", "2025-1-15", "2025-01-16", "15/01/2025"}
EndDates == {"2025-01-15", "2025-01-16"}

(* A variant that finds no range inverted, against which the rejection of  *)
(* inverted ranges is tried.                                                *)
never_inverted(start, end) == FALSE

(* start_hour > end_hour, start_dt > end_dt *)
inverted(start, end) == start > end

InvalidHours == "start_hour must be less than or equal to end_hour"
InvalidDates == "start_date must be less than or equal to end_date"

(* "No cached data available" in str(e) *)
IsNoCachedData(exc) == exc.text = CacheMissText

(* A variant that skips nothing, against which the skipping of uncached    *)
(* hours is tried.                                                          *)
SkippedNever(cfg, out) == FALSE

(* A variant that passes over every ValueError in cache-only mode, against *)
(* which the aborting of a day range is tried.                              *)
SkippedAnyValueError(cfg, out) ==
    /\ out.kind = "raise"
    /\ IsInstance(out.exc, {"ValueError"})
    /\ cfg.cache_only

(* except ValueError: continue in cache-only mode on a cache miss, raise    *)
(* otherwise.                                                               *)
Skipped(cfg, out) ==
    /\ out.kind = "raise"
    /\ IsInstance(out.exc, {"ValueError"})
    /\ cfg.cache_only
    /\ IsNoCachedData(out.exc)

RangeFinals(hour) == { RespList(d) : d \in Listings(hour) } \cup {Resp("object")}

RangeResult(out) ==
    [op |-> "range", mode |-> rng.mode, cfg |-> rng.cfg, args |-> rng.args,
     calls |-> rng.calls, out |-> out]

(* A call of fetch_multiple_hours or fetch_multiple_days up to its first    *)
(* call of fetch_listings.                                                  *)
RangeStart ==
    /\ ret = NoCall
    /\ rng = Idle
    /\ \E mode \in {"hours", "days"}, uc \in BOOLEAN, co \in BOOLEAN,
          start_date \in StartDates, end_date \in EndDates,
          start_hour \in Hours, end_hour \in Hours :
        LET cfg == Cfg(0, uc, AgeCap, co)
            start_dt == strptime(start_date)
            end_dt == IF mode = "hours" THEN start_dt ELSE strptime(end_date)
            args == [start_date |-> start_date,
                     end_date |-> IF mode = "hours" THEN start_date ELSE end_date,
                     start_hour |-> start_hour, end_hour |-> end_hour]
            failed(e) ==
                /\ ret' = [op |-> "range", mode |-> mode, cfg |-> cfg,
                           args |-> args, calls |-> <<>>, out |-> Raise(e)]
                /\ rng' = Idle
        IN  /\ (mode = "hours") => start_date \in {DateSeq[d] : d \in DOMAIN DateSeq}
            /\ CASE mode = "days" /\ start_dt = 0 ->
                      failed(Exc("ValueError", "Invalid date format", start_date))
                 [] mode = "days" /\ inverted(start_dt, end_dt) ->
                      failed(Exc("ValueError", InvalidDates, "None"))
                 [] inverted(start_hour, end_hour) ->
                      failed(Exc("ValueError", InvalidHours, "None"))
                 [] OTHER ->
                      /\ rng' = [pc |-> "fetching", mode |-> mode, cfg |-> cfg,
                                 args |-> args,
                                 current_date |-> start_dt, end_dt |-> end_dt,
                                 hour |-> start_hour,
                                 day_dict |-> <<>>, channels_dict |-> <<>>,
                                 calls |-> <<>>]
                      /\ ret' = ret
    /\ UNCHANGED <<files, stored>>

(* One iteration of the hour loop, with what follows it when it is the      *)
(* day's last: the return of fetch_multiple_hours and, in fetch_multiple_   *)
(* days, the merge of the day and the step to the next.                     *)
RangeStep ==
    /\ rng # Idle
    /\ \E failures \in 0..1, final \in RangeFinals(rng.hour) :
        LET cfg == rng.cfg
            key == Key("sky", "london", strftime(rng.current_date), rng.hour)
            hit == /\ cfg.use_cache
                   /\ get_cached_data(files, key, cfg.cache_ttl, "none")
                        \notin {Return(PyNone)}
            f == fetch_listings(files, key, cfg,
                                Responses(cfg.max_retries, failures, final), NoFaults)
            calls == Append(rng.calls, [key |-> key, out |-> f.out, log |-> f.log])
            day_dict == IF f.out.kind = "return"
                        THEN merge_channels(rng.day_dict, f.out.value)
                        ELSE rng.day_dict
            channels_dict == merge_channels(rng.channels_dict, day_dict)
            finished(out) ==
                /\ ret' = [RangeResult(out) EXCEPT !.calls = calls]
                /\ rng' = Idle
        IN  /\ (hit \/ cfg.cache_only \/ failures = 1) => final = Resp("object")
            /\ (hit \/ cfg.cache_only) => failures = 0
            /\ files' = f.fs
            /\ stored' = IF f.log # <<>> /\ f.out.kind = "return" /\ cfg.use_cache
                         THEN StoredAfterPut(stored, key, f.out.value, "none")
                         ELSE stored
            /\ CASE f.out.kind = "raise" /\ ~Skipped(cfg, f.out) ->
                      finished(f.out)
                 [] rng.hour < rng.args.end_hour ->
                      /\ rng' = [rng EXCEPT !.hour = @ + 1, !.day_dict = day_dict,
                                            !.calls = calls]
                      /\ ret' = ret
                 [] rng.mode = "hours" ->
                      finished(Return(day_dict))
                 [] rng.current_date < rng.end_dt ->
                      /\ rng' = [rng EXCEPT !.current_date = @ + 1,
                                            !.hour = rng.args.start_hour,
                                            !.day_dict = <<>>,
                                            !.channels_dict = channels_dict,
                                            !.calls = calls]
                      /\ ret' = ret
                 [] OTHER ->
                      finished(Return(channels_dict))

(* Another program overwrites a cached hour with bytes that are not UTF-8. *)
GarbledKey == Key("sky", "london", DateSeq[1], 21)

Garble ==
    /\ ret = NoCall
    /\ rng = Idle
    /\ files[get_cache_filename(GarbledKey)].kind = "json"
    /\ files' = [files EXCEPT ![get_cache_filename(GarbledKey)] =
                    File("undecodable", <<>>, @.age)]
    /\ stored' = [stored EXCEPT ![GarbledKey] = NotStored]
    /\ UNCHANGED <<ret, rng>>

NextRange == RangeStart \/ RangeStep \/ Done \/ ClearCache \/ Garble

SpecRange == Init /\ [][NextRange]_vars

----------------------------------------------------------------------------
(* Two processes on one cache directory: one runs save_cached_data while    *)
(* the other runs get_cached_data on the same key.  The steps of each are   *)
(* its system calls; they interleave in every order.                        *)

RaceKey == ClientKey

(* Both processes are started: nothing has touched the file yet. *)
RaceStart ==
    /\ ret = NoCall
    /\ rng = Idle
    /\ \E data \in ClientPayloads, ttl \in TTLChoices :
          rng' = [pc |-> "race", key |-> RaceKey, data |-> data, ttl |-> ttl,
                  pre |-> files[get_cache_filename(RaceKey)],
                  writer |-> "open", reader |-> "check",
                  seen |-> NoFile, out |-> Return(PyNone)]
    /\ UNCHANGED <<files, ret, stored>>

(* Line 108: open(cache_file, 'w') creates the file or truncates it. *)
WriterOpen ==
    /\ rng.pc = "race"
    /\ rng.writer = "open"
    /\ files' = [files EXCEPT ![get_cache_filename(rng.key)] = File("empty", <<>>, 0)]
    /\ stored' = [stored EXCEPT ![rng.key] = NotStored]
    /\ rng' = [rng EXCEPT !.writer = "write"]
    /\ UNCHANGED ret

(* Line 109: json.dump writes the text piece by piece; the buffer may reach *)
(* the file before the text is complete.                                    *)
WriterFlush ==
    /\ rng.pc = "race"
    /\ rng.writer = "write"
    /\ files' = [files EXCEPT ![get_cache_filename(rng.key)] =
                    File("truncated", <<>>, 0)]
    /\ rng' = [rng EXCEPT !.writer = "close"]
    /\ UNCHANGED <<ret, stored>>

(* The end of the with block: the rest of the text reaches the file. *)
WriterClose ==
    /\ rng.pc = "race"
    /\ rng.writer \in {"write", "close"}
    /\ files' = WriteJson(files, get_cache_filename(rng.key), rng.data, "none").fs
    /\ stored' = StoredAfterPut(stored, rng.key, rng.data, "none")
    /\ rng' = [rng EXCEPT !.writer = "catalogue"]
    /\ UNCHANGED ret

(* Lines 111-122: the catalogue record of the entry. *)
WriterCatalogue ==
    /\ rng.pc = "race"
    /\ rng.writer = "catalogue"
    /\ LET m == load_metadata(files, "none") IN
       files' = IF m.kind = "return" /\ IsDict(m.value)
                THEN save_metadata(files,
                                   SetItem(m.value, CacheKey(rng.key),
                                           MetaRecord(rng.key,
                                                      get_cache_filename(rng.key))),
                                   "none")
                ELSE files
    /\ rng' = [rng EXCEPT !.writer = "done"]
    /\ UNCHANGED <<ret, stored>>

(* Line 84: _is_cache_valid looks at the file's existence and mtime. *)
ReaderCheck ==
    /\ rng.pc = "race"
    /\ rng.reader = "check"
    /\ rng' = IF is_cache_valid(files, get_cache_filename(rng.key), rng.ttl)
              THEN [rng EXCEPT !.reader = "read"]
              ELSE [rng EXCEPT !.reader = "done", !.out = Return(PyNone)]
    /\ UNCHANGED <<files, ret, stored>>

(* Lines 85-91: the file is opened and read as it is at that moment. *)
ReaderRead ==
    /\ rng.pc = "race"
    /\ rng.reader = "read"
    /\ LET cache_file == get_cache_filename(rng.key)
           r == ReadJson(files, cache_file, "none")
       IN  rng' = [rng EXCEPT
                     !.reader = "done",
                     !.seen = files[cache_file],
                     !.out = IF r.kind = "raise"
                             THEN IF IsInstance(r.exc, {"JSONDecodeError", "IOError"})
                                  THEN Return(PyNone)
                                  ELSE r
                             ELSE Return(PyData(r.value))]
    /\ UNCHANGED <<files, ret, stored>>

(* Both processes have ended. *)
RaceEnd ==
    /\ rng.pc = "race"
    /\ rng.writer = "done"
    /\ rng.reader = "done"
    /\ ret' = [op |-> "race", key |-> rng.key, data |-> rng.data, ttl |-> rng.ttl,
               pre |-> rng.pre, seen |-> rng.seen, out |-> rng.out]
    /\ rng' = Idle
    /\ UNCHANGED <<files, stored>>

NextRace ==
    \/ RaceStart \/ WriterOpen \/ WriterFlush \/ WriterClose \/ WriterCatalogue
    \/ ReaderCheck \/ ReaderRead \/ RaceEnd \/ Done

SpecRace == Init /\ [][NextRace]_vars

----------------------------------------------------------------------------
(* The merge of fetch_multiple_days on its own: three days' results merged  *)
(* into one dataset                                                         *)

PayloadE == << Chan(1, "bbc-one", "BBC One", <<E1>>) >>

(* What fetch_multiple_hours may return for a day: the merge of one or two  *)
(* hours' listings, or of none.                                             *)
DayResults ==
    LET listings == {PayloadA, PayloadB, PayloadC, PayloadD, PayloadE} IN
    {<<>>} \cup { merge_channels(<<>>, p) : p \in listings }
           \cup { merge_channels(merge_channels(<<>>, p), q) :
                     p \in {PayloadA, PayloadD}, q \in {PayloadB, PayloadC} }

(* Lines 522-566: every day's result is merged into channels_dict in turn. *)
RECURSIVE merge_days(_, _)
merge_days(channels_dict, days) ==
    IF days = <<>> THEN channels_dict
    ELSE merge_days(merge_channels(channels_dict, Head(days)), Tail(days))

MergeDays ==
    /\ ret = NoCall
    /\ \E d1 \in DayResults, d2 \in DayResults, d3 \in DayResults :
          ret' = [op |-> "merge", days |-> <<d1, d2, d3>>,
                  out |-> merge_days(<<>>, <<d1, d2, d3>>)]
    /\ UNCHANGED <<files, stored, rng>>

NextMerge == MergeDays \/ Done

SpecMerge == Init /\ [][NextMerge]_vars

----------------------------------------------------------------------------
(* Now mode: main's --now, the window of calculate_now_range handed to      *)
(* fetch_multiple_days                                                      *)

(* end_hour = 23: through the end of each day *)
LastHourOfDay == 23

(* datetime.utcnow(): a moment of the second day of the calendar *)
Moments ==
    { [day |-> d, hour |-> h, minute |-> m] : d \in {2}, h \in 0..LastHourOfDay,
                                              m \in {0, 59} }

(* now - timedelta(hours=1) *)
hour_before(now) ==
    IF now.hour = 0
    THEN [now EXCEPT !.day = @ - 1, !.hour = LastHourOfDay]
    ELSE [now EXCEPT !.hour = @ - 1]

(* now + timedelta(days=days) *)
days_after(now, days) == [now EXCEPT !.day = @ + days]

calculate_now_range(now, days) ==
    LET start_time == hour_before(now)
        end_time == days_after(now, days)
        start_date == strftime(start_time.day)
        end_date == strftime(end_time.day)
        start_hour == start_time.hour
        end_hour == LastHourOfDay
    IN  <<start_date, end_date, start_hour, end_hour>>

(* main, lines 809-828: the window goes to fetch_multiple_days as it is;    *)
(* requested is what a run without a failing fetch asks of fetch_listings.  *)
NowRange ==
    /\ ret = NoCall
    /\ \E now \in Moments, days \in 0..MaxNowDays :
        LET window == calculate_now_range(now, days) IN
        ret' = [op |-> "now", now |-> now, days |-> days, window |-> window,
                requested |-> slots(strptime(window[1]), strptime(window[2]),
                                    window[3], window[4])]
    /\ UNCHANGED <<files, stored, rng>>

NextNow == NowRange \/ Done

SpecNow == Init /\ [][NextNow]_vars

----------------------------------------------------------------------------
(* The converter: TVGuideConverter.parse_json and generate_xmltv, as main   *)
(* calls them on one dataset                                                *)

(* dict.get(field, default) *)
Get(dict, field, default) ==
    IF field \in DOMAIN dict THEN dict[field] ELSE default

(* A str and an int of Python are never equal. *)
PyStr(text) == [str |-> text]
PyInt(n) == [int |-> n]

(* channel_data.get('slug', channel_data['pa_id']): the slug is a string    *)
(* and the provider id a number in every dataset of the model.              *)
channel_id_of(channel_data) ==
    IF "slug" \in DOMAIN channel_data
    THEN PyStr(channel_data.slug)
    ELSE PyInt(channel_data.pa_id)

(* A datetime in UTC: the minute since 2025-01-15T00:00 and the second of   *)
(* that minute.                                                             *)
DateTime(min, sec) == [min |-> min, sec |-> sec]

WellFormedStarts ==
    {"2025-01-15T20:00:00Z", "2025-01-15T20:00:30Z", "2025-01-15T20:30:00Z",
     "2025-01-15T21:00:00Z", "2025-01-15T23:59:59Z"}

(* datetime.fromisoformat(start_at.replace('Z', '+00:00')) *)
fromisoformat(start_at) ==
    CASE start_at = "2025-01-15T20:00:00Z" -> DateTime(1200, 0)
      [] start_at = "2025-01-15T20:00:30Z" -> DateTime(1200, 30)
      [] start_at = "2025-01-15T20:30:00Z" -> DateTime(1230, 0)
      [] start_at = "2025-01-15T21:00:00Z" -> DateTime(1260, 0)
      [] start_at = "2025-01-15T23:59:59Z" -> DateTime(1439, 59)

timestamp(dt) == dt.min * 60 + dt.sec

fromtimestamp(t) == DateTime(t \div 60, t % 60)

(* Lines 310-317: the start with its seconds set to 0, plus the duration. *)
stop_time(start_time, duration_minutes) ==
    LET truncated == [start_time EXCEPT !.sec = 0] IN
    fromtimestamp(timestamp(truncated) + duration_minutes * 60)

MissingField(dict, required_fields) ==
    { i \in DOMAIN required_fields : required_fields[i] \notin DOMAIN dict }

(* Gives Return(programme) or the ValueError raised. *)
parse_programme(schedule, channel_id) ==
    LET required_fields == <<"pa_id", "title", "start_at", "duration">>
        missing == MissingField(schedule, required_fields)
    IN  IF missing # {}
        THEN Raise(Exc("ValueError", "Missing required field in schedule data",
                       required_fields[CHOOSE i \in missing : \A j \in missing : i <= j]))
        ELSE IF schedule.start_at \notin WellFormedStarts
        THEN Raise(Exc("ValueError", "Invalid start_at format", schedule.start_at))
        ELSE LET start_time == fromisoformat(schedule.start_at) IN
             Return([pa_id |-> schedule.pa_id,
                     title |-> schedule.title,
                     start |-> start_time,
                     stop |-> stop_time(start_time, schedule.duration),
                     channel |-> channel_id])

(* The converter's state: channels is self.channels as the sequence of its  *)
(* (key, value) pairs in insertion order, programmes is self.programmes.    *)
NewConverter == [channels |-> <<>>, programmes |-> <<>>, error |-> PyNone]

(* A variant in which a key assigned again moves to the end, against which *)
(* the order of the channels is tried.                                      *)
SetChannelLast(channels, channel_id, value) ==
    Append(SelectSeq(channels, LAMBDA c : c.key # channel_id),
           [key |-> channel_id, value |-> value])

(* self.channels[channel_id] = value: a key the dict holds keeps its place  *)
(* and takes the new value.                                                 *)
SetChannel(channels, channel_id, value) ==
    IF \E i \in DOMAIN channels : channels[i].key = channel_id
    THEN [i \in DOMAIN channels |->
            IF channels[i].key = channel_id
            THEN [key |-> channel_id, value |-> value]
            ELSE channels[i]]
    ELSE Append(channels, [key |-> channel_id, value |-> value])

RECURSIVE parse_programmes(_, _, _)
parse_programmes(conv, schedules, channel_id) ==
    IF schedules = <<>> THEN conv
    ELSE LET p == parse_programme(Head(schedules), channel_id) IN
         IF p.kind = "raise"
         THEN [conv EXCEPT !.error = p]
         ELSE parse_programmes([conv EXCEPT !.programmes = Append(@, p.value)],
                               Tail(schedules), channel_id)

parse_channel(conv, channel_data) ==
    LET required_fields == <<"pa_id", "title", "schedules">>
        missing == MissingField(channel_data, required_fields)
    IN  IF missing # {}
        THEN [conv EXCEPT !.error =
                Raise(Exc("ValueError", "Missing required field in channel data",
                          required_fields[CHOOSE i \in missing :
                                             \A j \in missing : i <= j]))]
        ELSE LET channel_id == channel_id_of(channel_data)
                 value == [id |-> channel_id,
                           title |-> channel_data.title,
                           slug |-> Get(channel_data, "slug", ""),
                           logo_url |-> Get(channel_data, "logo_url", ""),
                           pa_id |-> channel_data.pa_id]
             IN  parse_programmes(
                    [conv EXCEPT !.channels = SetChannel(@, channel_id, value)],
                    channel_data.schedules, channel_id)

(* parse_json of a list: the channels in turn, up to the first error. *)
RECURSIVE parse_json(_, _)
parse_json(conv, data) ==
    IF data = <<>> \/ conv.error # PyNone THEN conv
    ELSE parse_json(parse_channel(conv, Head(data)), Tail(data))

Pad2(n) == IF n < 10 THEN "0" \o ToString(n) ELSE ToString(n)

(* dt.strftime('%Y%m%d%H%M%S %z') *)
format_xmltv_time(dt) ==
    "202501" \o Pad2(15 + (dt.min \div 1440))
             \o Pad2((dt.min % 1440) \div 60) \o Pad2(dt.min % 60) \o Pad2(dt.sec)
             \o " +0000"

(* The <channel> and <programme> elements of the document, in order; a     *)
(* channel without logo has no <icon>.                                      *)
generate_xmltv(conv) ==
    [channels |->
        [i \in DOMAIN conv.channels |->
            LET channel_data == conv.channels[i].value IN
            IF channel_data.logo_url # ""
            THEN [id |-> conv.channels[i].key, display_name |-> channel_data.title,
                  icon |-> channel_data.logo_url]
            ELSE [id |-> conv.channels[i].key, display_name |-> channel_data.title]],
     programmes |->
        [i \in DOMAIN conv.programmes |->
            [start |-> format_xmltv_time(conv.programmes[i].start),
             stop |-> format_xmltv_time(conv.programmes[i].stop),
             channel |-> conv.programmes[i].channel,
             title |-> conv.programmes[i].title]]]

(* tostring(tv_element): an attribute that is not a str cannot be          *)
(* serialized; the document carries the attributes as their text.           *)
to_xml_string(tv_element) ==
    IF \E i \in DOMAIN tv_element.channels : "str" \notin DOMAIN tv_element.channels[i].id
    THEN Raise(Exc("TypeError", "cannot serialize", "id"))
    ELSE IF \E i \in DOMAIN tv_element.programmes :
               "str" \notin DOMAIN tv_element.programmes[i].channel
    THEN Raise(Exc("TypeError", "cannot serialize", "channel"))
    ELSE Return([channels |->
                    [i \in DOMAIN tv_element.channels |->
                        [tv_element.channels[i] EXCEPT !.id = @.str]],
                 programmes |->
                    [i \in DOMAIN tv_element.programmes |->
                        [tv_element.programmes[i] EXCEPT !.channel = @.str]]])

(* Lines 259-270: json_data is the text of the input file or the list a     *)
(* fetch returned; a text that does not parse and a value that is not a     *)
(* list are ValueErrors.                                                    *)
convert_json(json_data) ==
    CASE json_data.kind = "notjson" ->
            Raise(Exc("ValueError", "Invalid JSON data", "None"))
      [] json_data.kind = "object" ->
            Raise(Exc("ValueError", "Expected JSON array of channel objects", "None"))
      [] OTHER ->
            LET conv == parse_json(NewConverter, json_data.doc) IN
            IF conv.error # PyNone THEN conv.error
            ELSE to_xml_string(generate_xmltv(conv))

(* The datasets given to the converter *)
ConvSched(p, title, start_at, duration) ==
    [pa_id |-> p, title |-> title, start_at |-> start_at, duration |-> duration]

ConvSchedules ==
    { ConvSched(100, "News", st, du) :
        st \in {"2025-01-15T20:00:00Z", "2025-01-15T20:00:30Z", "2025-01-15T23:59:59Z"},
        du \in {0, 30} }
    \cup { ConvSched(100, "News", "2025-01-15T20:00:00Z", -30),
           ConvSched(100, "News", "20:00", 30),
           [pa_id |-> 100, title |-> "News", start_at |-> "2025-01-15T20:00:00Z"] }

ConvScheduleLists == {<<>>} \cup { <<sch>> : sch \in ConvSchedules }

ConvChannels ==
    { [pa_id |-> p, title |-> t, schedules |-> l] :
        p \in {1, 2}, t \in {"BBC One", "BBC 1"}, l \in ConvScheduleLists }
    \cup { [pa_id |-> p, title |-> t, schedules |-> l, slug |-> "bbc-one"] :
        p \in {1, 2}, t \in {"BBC One", "BBC 1"}, l \in ConvScheduleLists }
    \cup { [pa_id |-> p, title |-> t, schedules |-> l, slug |-> "bbc-one",
            logo_url |-> "http://logo/" \o ToString(p) \o ".png"] :
        p \in {1, 2}, t \in {"BBC One", "BBC 1"}, l \in ConvScheduleLists }
    \cup { [pa_id |-> 1, schedules |-> <<>>] }

(* Channels of two slugs whose schedule lists are not in the order of      *)
(* their start times.                                                       *)
OrderChannels ==
    { [pa_id |-> 1, slug |-> slug, title |-> "BBC One", schedules |-> l] :
        slug \in {"bbc-one", "itv"},
        l \in { << ConvSched(100, "Late", "2025-01-15T21:00:00Z", 30) >>,
                << ConvSched(101, "Early", "2025-01-15T20:00:00Z", 30) >>,
                << ConvSched(100, "Late", "2025-01-15T21:00:00Z", 30),
                   ConvSched(101, "Early", "2025-01-15T20:00:00Z", 30) >> } }

ConvDatasets ==
    {<<>>} \cup { <<c>> : c \in ConvChannels }
           \cup { <<c, d>> : c \in ConvChannels, d \in ConvChannels }
           \cup { <<c, d, e>> : c \in OrderChannels, d \in OrderChannels,
                                e \in OrderChannels }

(* main, lines 901-904: a new converter parses the dataset, renders it and  *)
(* serializes the document.                                                 *)
Convert ==
    /\ ret = NoCall
    /\ \E data \in ConvDatasets :
        LET conv == parse_json(NewConverter, data) IN
        ret' = [op |-> "convert", data |-> data,
                channels |-> conv.channels, programmes |-> conv.programmes,
                error |-> conv.error,
                out |-> IF conv.error # PyNone THEN conv.error
                        ELSE to_xml_string(generate_xmltv(conv))]
    /\ UNCHANGED <<files, stored, rng>>

NextConvert == Convert \/ Done

SpecConvert == Init /\ [][NextConvert]_vars

----------------------------------------------------------------------------
(* main: one run of the program from its command line to its exit           *)

(* The defaults of argparse *)
DefaultNowDays == 7
DefaultRetries == 3

(* An option the command line does not give is None: args holds the given   *)
(* options and the flags, which are never None.                             *)
Given(args, option) == option \in DOMAIN args

Defaults ==
    [api |-> FALSE, now |-> FALSE, now_days |-> DefaultNowDays,
     no_cache |-> FALSE, cache_only |-> FALSE, retries |-> DefaultRetries]

(* The command lines of the usage text, lines 612-632 *)
DocInput == [input |-> "input.json", output |-> "output.xml"] @@ Defaults

DocSingleHour ==
    [api |-> TRUE, platform |-> "sky", region |-> "london", date |-> "2025-01-15",
     hour |-> 21, output |-> "output.xml"] @@ Defaults

DocHourRange ==
    [api |-> TRUE, platform |-> "sky", region |-> "london", date |-> "2025-01-15",
     start_hour |-> 18, end_hour |-> 23, output |-> "output.xml"] @@ Defaults

DocDayRange ==
    [api |-> TRUE, platform |-> "sky", region |-> "london",
     start_date |-> "2025-01-15", end_date |-> "2025-01-17",
     start_hour |-> 18, end_hour |-> 23, output |-> "output.xml"] @@ Defaults

DocNow ==
    [api |-> TRUE, platform |-> "sky", region |-> "london", now |-> TRUE,
     output |-> "output.xml"] @@ Defaults

DocNowDays ==
    [api |-> TRUE, platform |-> "sky", region |-> "london", now |-> TRUE,
     now_days |-> 3, output |-> "output.xml"] @@ Defaults

(* Other command lines: the cache flags with --now, --now without --api,    *)
(* --api without a date, a missing --output, a missing --region, and        *)
(* --now-days below 1.                                                      *)
OtherCommandLines ==
    { [no_cache |-> nc, cache_only |-> co] @@ DocNowDays :
         nc \in BOOLEAN, co \in BOOLEAN }
    \cup { [api |-> FALSE] @@ DocNow,
           [api |-> TRUE, platform |-> "sky", region |-> "london",
            output |-> "output.xml"] @@ Defaults,
           [input |-> "input.json"] @@ Defaults,
           [api |-> TRUE, platform |-> "sky", now |-> TRUE,
            output |-> "output.xml"] @@ Defaults,
           [now_days |-> 0] @@ DocNow }

CommandLines ==
    {DocInput, DocSingleHour, DocHourRange, DocDayRange, DocNow, DocNowDays}
    \cup OtherCommandLines

Count(flags) == Cardinality({ i \in DOMAIN flags : flags[i] })

(* Lines 696-783: the first complaint about the arguments, or "ok".  The    *)
(* flag args.now is False or True, never None, and counts among the date    *)
(* and the hour arguments that are not None whether it is set or not.       *)
validate(args) ==
    LET date_arg_count ==
            Count(<<Given(args, "date"), Given(args, "start_date"),
                    Given(args, "end_date"), Given(args, "now")>>)
        hour_arg_count ==
            Count(<<Given(args, "hour"), Given(args, "start_hour"),
                    Given(args, "end_hour"), Given(args, "now")>>)
        hour_ok(h) == 0 <= h /\ h <= 23
    IN  CASE ~args.api /\ ~args.now /\ ~Given(args, "input") ->
                "Either provide an input file or use --api"
          [] ~Given(args, "output") ->
                "Output file path is required"
          [] ~(args.api \/ args.now) -> "ok"
          [] ~Given(args, "platform") \/ ~Given(args, "region") ->
                "The following arguments are required when using --api"
          [] args.now_days # DefaultNowDays /\ ~args.now ->
                "--now-days can only be used with --now"
          [] args.now_days < 1 ->
                "--now-days must be at least 1"
          [] date_arg_count > 1 ->
                "Cannot specify more than one of --date, --start-date/--end-date, or --now"
          [] hour_arg_count > 1 ->
                "Cannot specify more than one of --hour, --start-hour/--end-hour, or --now"
          [] Given(args, "hour") /\ ~hour_ok(args.hour) ->
                "--hour must be between 0 and 23"
          [] ~Given(args, "hour") /\ Given(args, "start_hour") # Given(args, "end_hour") ->
                "Both --start-hour and --end-hour must be specified together"
          [] ~Given(args, "hour") /\ Given(args, "start_hour")
                /\ ~(hour_ok(args.start_hour) /\ hour_ok(args.end_hour)) ->
                "--start-hour and --end-hour must be between 0 and 23"
          [] ~Given(args, "hour") /\ Given(args, "start_hour")
                /\ args.start_hour > args.end_hour ->
                "--start-hour must be less than or equal to --end-hour"
          [] Given(args, "date") /\ strptime(args.date) = 0 ->
                "--date must be in YYYY-MM-DD format"
          [] ~Given(args, "date") /\ Given(args, "start_date") # Given(args, "end_date") ->
                "Both --start-date and --end-date must be specified together"
          [] ~Given(args, "date") /\ Given(args, "start_date")
                /\ (strptime(args.start_date) = 0 \/ strptime(args.end_date) = 0) ->
                "--start-date and --end-date must be in YYYY-MM-DD format"
          [] ~Given(args, "date") /\ Given(args, "start_date")
                /\ strptime(args.start_date) > strptime(args.end_date) ->
                "--start-date must be less than or equal to --end-date"
          [] OTHER -> "ok"

(* Lines 786-895: where the run takes its JSON data from. *)
fetch_plan(args) ==
    CASE ~args.api           -> "input"
      [] args.now            -> "now"
      [] Given(args, "date") -> IF Given(args, "hour") THEN "single_hour"
                                ELSE "hour_range"
      [] OTHER               -> "day_range"

(* What the API answers for an hour: a list the converter accepts. *)
MainListing ==
    << [pa_id |-> 1, slug |-> "bbc-one", title |-> "BBC One",
        schedules |-> <<ConvSched(100, "News", "2025-01-15T20:00:00Z", 30)>>] >>

(* A list with a schedule entry that lacks its duration, and a list whose   *)
(* channel has no slug.                                                     *)
BadSchemaListing ==
    << [pa_id |-> 1, slug |-> "bbc-one", title |-> "BBC One",
        schedules |-> << [pa_id |-> 100, title |-> "News",
                          start_at |-> "2025-01-15T20:00:00Z"] >>] >>

NoSlugListing ==
    << [pa_id |-> 1, title |-> "BBC One",
        schedules |-> <<ConvSched(100, "News", "2025-01-15T20:00:00Z", 30)>>] >>

Troubles == {"none", "conn_error", "bad_json", "object", "bad_schema", "no_slug"}

(* The attempts of a fetch meet what the environment holds for its hour:    *)
(* env.trouble at the hour env.at, the listing at every other hour.         *)
Answers(env, date, hour, max_retries) ==
    IF <<date, hour>> # env.at \/ env.trouble = "none"
    THEN Responses(max_retries, 0, RespList(MainListing))
    ELSE CASE env.trouble = "conn_error" ->
                 Responses(max_retries, max_retries + 1, Resp("bad_json"))
           [] env.trouble = "bad_schema" ->
                 Responses(max_retries, 0, RespList(BadSchemaListing))
           [] env.trouble = "no_slug" ->
                 Responses(max_retries, 0, RespList(NoSlugListing))
           [] OTHER ->
                 Responses(max_retries, 0, Resp(env.trouble))

(* Lines 438-479: the loop of fetch_multiple_hours from `hour` on.  q holds *)
(* what every call of fetch_listings is given: platform, region, cfg and    *)
(* the environment.                                                         *)
RECURSIVE hour_loop(_, _, _, _, _, _, _)

(* The rest of an iteration, f being what its fetch_listings gave. *)
hour_merge(f, q, date, hour, end_hour, channels_dict, calls) ==
    CASE Skipped(q.cfg, f.out) ->
            hour_loop(f.fs, q, date, hour + 1, end_hour, channels_dict, calls)
      [] f.out.kind = "raise" ->
            [fs |-> f.fs, out |-> f.out, calls |-> calls]
      [] OTHER ->
            hour_loop(f.fs, q, date, hour + 1, end_hour,
                      merge_channels(channels_dict, f.out.value), calls)

hour_loop(fs, q, date, hour, end_hour, channels_dict, calls) ==
    IF hour > end_hour
    THEN [fs |-> fs, out |-> Return(channels_dict), calls |-> calls]
    ELSE hour_merge(fetch_listings(fs, Key(q.platform, q.region, date, hour), q.cfg,
                                   Answers(q.env, date, hour, q.cfg.max_retries),
                                   NoFaults),
                    q, date, hour, end_hour, channels_dict,
                    Append(calls, <<date, hour>>))

fetch_multiple_hours(fs, q, date, start_hour, end_hour) ==
    IF inverted(start_hour, end_hour)
    THEN [fs |-> fs, out |-> Raise(Exc("ValueError", InvalidHours, "None")),
          calls |-> <<>>]
    ELSE hour_loop(fs, q, date, start_hour, end_hour, <<>>, <<>>)

(* Lines 522-576: the loop of fetch_multiple_days from current_date on. *)
RECURSIVE day_loop(_, _, _, _, _, _, _, _)

(* The rest of an iteration, d being what its fetch_multiple_hours gave. *)
day_merge(d, q, current_date, end_dt, start_hour, end_hour, channels_dict, calls) ==
    CASE Skipped(q.cfg, d.out) ->
            day_loop(d.fs, q, current_date + 1, end_dt, start_hour, end_hour,
                     channels_dict, calls \o d.calls)
      [] d.out.kind = "raise" ->
            [fs |-> d.fs, out |-> d.out, calls |-> calls \o d.calls]
      [] OTHER ->
            day_loop(d.fs, q, current_date + 1, end_dt, start_hour, end_hour,
                     merge_channels(channels_dict, d.out.value), calls \o d.calls)

day_loop(fs, q, current_date, end_dt, start_hour, end_hour, channels_dict, calls) ==
    IF current_date > end_dt
    THEN [fs |-> fs, out |-> Return(channels_dict), calls |-> calls]
    ELSE day_merge(fetch_multiple_hours(fs, q, strftime(current_date),
                                        start_hour, end_hour),
                   q, current_date, end_dt, start_hour, end_hour, channels_dict, calls)

(* dates: [start_date, end_date], a field missing when the date is None. *)
fetch_multiple_days(fs, q, dates, start_hour, end_hour) ==
    LET failed(e) == [fs |-> fs, out |-> Raise(e), calls |-> <<>>] IN
    CASE ~Given(dates, "start_date") \/ ~Given(dates, "end_date") ->
            failed(Exc("TypeError", "strptime() argument 1 must be str, not None",
                       "None"))
      [] strptime(dates.start_date) = 0 ->
            failed(Exc("ValueError", "Invalid date format", dates.start_date))
      [] strptime(dates.end_date) = 0 ->
            failed(Exc("ValueError", "Invalid date format", dates.end_date))
      [] inverted(strptime(dates.start_date), strptime(dates.end_date)) ->
            failed(Exc("ValueError", InvalidDates, "None"))
      [] OTHER ->
            day_loop(fs, q, strptime(dates.start_date), strptime(dates.end_date),
                     start_hour, end_hour, <<>>, <<>>)

(* Lines 807-882: the fetch the arguments select.  Gives [fs, out, calls,   *)
(* fetcher, window]: the fetcher called, the range handed to it and the     *)
(* (date, hour) pairs fetch_listings was called with.                       *)
fetch_by_plan(fs, args, env) ==
    LET q == [platform |-> args.platform, region |-> args.region, env |-> env,
              cfg |-> Cfg(args.retries, ~args.no_cache, AgeCap, args.cache_only)]
        plan == fetch_plan(args)
    IN  CASE plan = "now" ->
               LET w == calculate_now_range(env.now, args.now_days) IN
               [fetcher |-> "fetch_multiple_days", window |-> w]
               @@ fetch_multiple_days(fs, q, [start_date |-> w[1], end_date |-> w[2]],
                                      w[3], w[4])
          [] plan = "single_hour" ->
               LET f == fetch_listings(fs, Key(q.platform, q.region, args.date, args.hour),
                                       q.cfg,
                                       Answers(env, args.date, args.hour, args.retries),
                                       NoFaults)
               IN  [fetcher |-> "fetch_listings",
                    window |-> <<args.date, args.date, args.hour, args.hour>>,
                    fs |-> f.fs, out |-> f.out,
                    calls |-> << <<args.date, args.hour>> >>]
          [] plan = "hour_range" ->
               [fetcher |-> "fetch_multiple_hours",
                window |-> <<args.date, args.date, args.start_hour, args.end_hour>>]
               @@ fetch_multiple_hours(fs, q, args.date, args.start_hour, args.end_hour)
          [] OTHER ->
               [fetcher |-> "fetch_multiple_days", window |-> <<>>]
               @@ fetch_multiple_days(
                     fs, q,
                     [o \in {"start_date", "end_date"} \cap DOMAIN args |-> args[o]],
                     IF Given(args, "start_hour") THEN args.start_hour ELSE 0,
                     IF Given(args, "end_hour") THEN args.end_hour ELSE 0)

(* The file named by --output *)
EmptyDocument == [channels |-> <<>>, programmes |-> <<>>]
OutputFile(kind, doc, age) == [kind |-> kind, doc |-> doc, age |-> age]
NoOutput == OutputFile("absent", EmptyDocument, 0)
OldOutput ==
    OutputFile("xml",
               [channels |-> << [id |-> "itv", display_name |-> "ITV"] >>,
                programmes |-> <<>>],
               1)

(* The file named by --input *)
InputFiles ==
    { [kind |-> "absent", doc |-> <<>>], [kind |-> "notjson", doc |-> <<>>],
      [kind |-> "object", doc |-> <<>>] }
    \cup { [kind |-> "json", doc |-> d] :
             d \in {MainListing, BadSchemaListing, NoSlugListing} }

(* A variant that opens the output file before the document is rendered,    *)
(* against which the treatment of the output on a fatal error is tried.     *)
convert_and_write_early(json_data, output, fault) ==
    LET xml_output == convert_json(json_data) IN
    IF xml_output.kind = "raise"
    THEN [stage |-> "convert", error |-> xml_output,
          output |-> OutputFile("partial", EmptyDocument, 0)]
    ELSE [stage |-> "done", error |-> Return(PyNone),
          output |-> OutputFile("xml", xml_output.value, 0)]

(* Lines 897-911: the document is parsed, rendered and serialized, and then *)
(* the output file is opened and written; fault is what the write meets.    *)
convert_and_write(json_data, output, fault) ==
    LET xml_output == convert_json(json_data) IN
    CASE xml_output.kind = "raise" ->
            [stage |-> "convert", error |-> xml_output, output |-> output]
      [] fault = "open" ->
            [stage |-> "write", output |-> output,
             error |-> Raise(Exc("OSError", "Permission denied", "output"))]
      [] fault = "write" ->
            [stage |-> "write", output |-> OutputFile("partial", EmptyDocument, 0),
             error |-> Raise(Exc("OSError", "No space left on device", "output"))]
      [] OTHER ->
            [stage |-> "done", error |-> Return(PyNone),
             output |-> OutputFile("xml", xml_output.value, 0)]

(* main from its arguments to its exit: env is what the run finds around    *)
(* it.  Gives the cache directory and the output file afterwards, the exit  *)
(* status, the stage the run reached and what it called.                    *)
(* The run did not get as far as having JSON data. *)
NoJsonData == [kind |-> "absent", doc |-> <<>>]

(* Lines 897-928 after the JSON data is there: f is what the run did to    *)
(* get it.                                                                  *)
main_convert(f, json_data, env) ==
    LET w == convert_and_write(json_data, env.output, env.fault) IN
    [exit |-> IF w.stage = "done" THEN 0 ELSE 1, stage |-> w.stage,
     error |-> w.error, output |-> w.output, json_data |-> json_data] @@ f

(* Lines 786-895 and the except clauses of lines 917-928. *)
main_fetched(f, env) ==
    IF f.out.kind = "raise"
    THEN [exit |-> 1, stage |-> "fetch", error |-> f.out, output |-> env.output,
          json_data |-> NoJsonData] @@ f
    ELSE main_convert(f, [kind |-> "json", doc |-> f.out.value], env)

main(fs, args, env) ==
    LET complaint == validate(args)
        nothing == [fs |-> fs, output |-> env.output, calls |-> <<>>,
                    fetcher |-> "None", window |-> <<>>, json_data |-> NoJsonData]
    IN  IF complaint # "ok"
        THEN [exit |-> 1, stage |-> "arguments",
              error |-> Raise(Exc("SystemExit", complaint, "None"))] @@ nothing
        ELSE IF fetch_plan(args) = "input"
        THEN IF ~Given(args, "input")
             THEN [exit |-> 1, stage |-> "input",
                   error |-> Raise(Exc("TypeError", "expected str, not NoneType",
                                       "None"))] @@ nothing
             ELSE IF env.input.kind = "absent"
             THEN [exit |-> 1, stage |-> "input",
                   error |-> Raise(Exc("FileNotFoundError", "No such file",
                                       args.input))] @@ nothing
             ELSE main_convert(nothing, env.input, env)
        ELSE main_fetched(fetch_by_plan(fs, args, env), env)

(* datetime.utcnow() of the runs: midnight of the second day of the         *)
(* calendar, so that the window opens in the last hour of the first day.    *)
MainMoments == { now \in Moments : now.hour = 0 /\ now.minute = 0 }

(* The hours a run may ask the API for, and those at which the environment  *)
(* may hold trouble: the first, one in the middle, the last.                *)
MainSlots == { <<Calendar[d], LastHourOfDay>> : d \in 1..(2 + DefaultNowDays) }

TroubleSlots ==
    { <<Calendar[d], LastHourOfDay>> : d \in {1, 4, 2 + DefaultNowDays} }

MainKeys == { Key("sky", "london", s[1], s[2]) : s \in MainSlots }

MainFileNames == FileNames \cup { get_cache_filename(k) : k \in MainKeys }

InitMain ==
    /\ files = [n \in MainFileNames |-> NoFile]
    /\ ret = NoCall
    /\ stored = [k \in Keys \cup MainKeys |-> NotStored]
    /\ rng = Idle

(* What the cache holds under each key after a run. *)
StoredIn(fs) ==
    [k \in DOMAIN stored |->
        IF fs[get_cache_filename(k)].kind = "json"
        THEN Stored(fs[get_cache_filename(k)].doc, fs[get_cache_filename(k)].age)
        ELSE NotStored]

(* r is what the run did. *)
MainRun(args, env, r) ==
    /\ (env.fault # "none") => r.stage \in {"write", "done"}
    /\ files' = r.fs
    /\ stored' = StoredIn(r.fs)
    /\ ret' = [op |-> "main", args |-> args, env |-> env,
               plan |-> fetch_plan(args), complaint |-> validate(args),
               exit |-> r.exit, stage |-> r.stage, error |-> r.error,
               fetcher |-> r.fetcher, window |-> r.window, calls |-> r.calls,
               json_data |-> r.json_data, output |-> r.output]

Main ==
    /\ ret = NoCall
    /\ \E args \in CommandLines, now \in MainMoments, at \in TroubleSlots,
          trouble \in Troubles, input \in InputFiles,
          output \in {NoOutput, OldOutput}, fault \in {"none", "open", "write"} :
        LET env == [now |-> now, at |-> at, trouble |-> trouble, input |-> input,
                    output |-> output, fault |-> fault]
        IN  /\ (fetch_plan(args) = "input" \/ validate(args) # "ok")
                  => (trouble = "none" /\ at = <<Calendar[1], LastHourOfDay>>)
            /\ (fetch_plan(args) # "input" \/ validate(args) # "ok")
                  => input = [kind |-> "absent", doc |-> <<>>]
            /\ (trouble = "none") => at = <<Calendar[1], LastHourOfDay>>
            /\ (fault # "none") => trouble = "none"
            /\ (trouble \in {"bad_schema", "no_slug"}) => args.no_cache
            /\ MainRun(args, env, main(files, args, env))
    /\ UNCHANGED rng

NextMain == Main \/ Done

SpecMain == InitMain /\ [][NextMain]_vars

----------------------------------------------------------------------------
(* Properties of fetch_listings, stated on the record of the last call *)

Fetched == ret.op = "fetch"

(* The entry the call found under its key is a complete, unexpired payload  *)
(* and its read met no fault.                                               *)
FoundValidEntry ==
    /\ ret.pre.kind = "json"
    /\ ret.pre.age < ret.cfg.cache_ttl
    /\ ret.io.read = "none"

(* The three errors of the client, as a caller tells them apart: the        *)
(* exception's class and the text of its message.                           *)
IsCacheMiss(out) ==
    /\ out.kind = "raise"
    /\ IsInstance(out.exc, {"ValueError"})
    /\ out.exc.text = CacheMissText

IsFetchFailed(out) ==
    /\ out.kind = "raise"
    /\ IsInstance(out.exc, {"RequestException"})

IsInvalidResponse(out) ==
    /\ out.kind = "raise"
    /\ out.exc.type = "ValueError"
    /\ out.exc.text \in {"Invalid JSON response from API",
                         "Expected JSON array from API response"}

HttpRequests(log) == { i \in 1..Len(log) : log[i].ev = "http" }
Sleeps(log) == { i \in 1..Len(log) : log[i].ev = "sleep" }

(* C1: with use_cache set and a valid entry under the key, fetch returns    *)
(* that entry's payload, issues no HTTP request and sleeps never, whatever  *)
(* max_retries and cache_only are.                                          *)
C1_HitReturnsEntryWithoutNetwork ==
    (Fetched /\ ret.cfg.use_cache /\ FoundValidEntry)
        => /\ ret.out = Return(ret.pre.doc)
           /\ ret.log = <<>>

C1_Witness ==
    /\ Fetched /\ ret.cfg.use_cache /\ FoundValidEntry
    /\ ret.cfg.max_retries > 0 /\ ~ret.cfg.cache_only
    /\ ret.out = Return(PayloadB)

(* C2: with cache_only set, fetch issues no HTTP request and ends in one of *)
(* two ways: it returns the cached payload, or it fails with a CacheMiss    *)
(* that names the key and is neither FetchFailed nor InvalidResponse.       *)
C2_CacheOnlyHitOrCacheMiss ==
    (Fetched /\ ret.cfg.cache_only)
        => /\ HttpRequests(ret.log) = {}
           /\ \/ ret.out.kind = "return" /\ ret.out.value = ret.pre.doc
              \/ /\ IsCacheMiss(ret.out)
                 /\ ret.out.exc.arg = CacheKey(ret.key)
                 /\ ~IsFetchFailed(ret.out)
                 /\ ~IsInvalidResponse(ret.out)

(* The call went to the network: cache_only is off and the cache gave       *)
(* nothing (not consulted, no entry, or an expired one).                    *)
CleanMiss ==
    /\ Fetched
    /\ ~ret.cfg.cache_only
    /\ \/ ~ret.cfg.use_cache
       \/ ret.pre.kind = "absent"
       \/ ret.pre.kind = "json" /\ ret.pre.age >= ret.cfg.cache_ttl

(* The number of attempts the responses allow: one more than the failures,  *)
(* and max_retries + 1 at most.                                             *)
AttemptsDue == Min(ret.failures, ret.cfg.max_retries) + 1

(* C3: on a miss the attempts follow one another until the first that does  *)
(* not fail at transport level or until max_retries + 1 have failed; after  *)
(* failed attempt i < max_retries comes a sleep of exactly 2^i seconds, and *)
(* nothing follows the last attempt.  With max_retries = 3 and every        *)
(* attempt failing: 4 attempts, sleeps of 1, 2 and 4 seconds, FetchFailed   *)
(* carrying the last failure.                                               *)
C3_RetryPolicy ==
    CleanMiss =>
        /\ Len(ret.log) = 2 * AttemptsDue - 1
        /\ \A i \in 0..(AttemptsDue - 1) : ret.log[2 * i + 1] = Http(i)
        /\ \A i \in 0..(AttemptsDue - 2) : ret.log[2 * i + 2] = Sleep(2^i)
        /\ (ret.failures > ret.cfg.max_retries) =>
              /\ IsFetchFailed(ret.out)
              /\ ret.out.exc.arg.attempts = ret.cfg.max_retries + 1
              /\ ret.out.exc.arg.last =
                    Responses(ret.cfg.max_retries, ret.failures,
                              ret.final)[ret.cfg.max_retries + 1].kind
        /\ (ret.failures > ret.cfg.max_retries /\ ret.cfg.max_retries = 3) =>
              ret.log = <<Http(0), Sleep(1), Http(1), Sleep(2),
                          Http(2), Sleep(4), Http(3)>>
        /\ (ret.failures <= ret.cfg.max_retries) => ~IsFetchFailed(ret.out)

C3_Witness ==
    /\ CleanMiss
    /\ ret.cfg.max_retries = 3
    /\ ret.failures = 4
    /\ ret.log = <<Http(0), Sleep(1), Http(1), Sleep(2), Http(2), Sleep(4), Http(3)>>
    /\ IsFetchFailed(ret.out)

(* Attempt number `failures` got the final response: the attempts before   *)
(* it failed at transport level and were fewer than the retries allow.      *)
FinalResponseReceived ==
    /\ CleanMiss
    /\ ret.failures <= ret.cfg.max_retries

(* C4: a response that arrives and whose body is not a JSON array makes     *)
(* fetch fail with InvalidResponse at once: no further request, no sleep    *)
(* after it, and never FetchFailed or CacheMiss, whatever retries remain.   *)
C4_NonListBodyFailsWithoutRetry ==
    (FinalResponseReceived /\ ret.final.kind # "list")
        => /\ IsInvalidResponse(ret.out)
           /\ ~IsFetchFailed(ret.out)
           /\ ~IsCacheMiss(ret.out)
           /\ ret.log[Len(ret.log)] = Http(ret.failures)
           /\ Cardinality(HttpRequests(ret.log)) = ret.failures + 1
           /\ Cardinality(Sleeps(ret.log)) = ret.failures

C4_Witness ==
    /\ FinalResponseReceived
    /\ ret.final.kind = "object"
    /\ ret.failures = 1
    /\ ret.cfg.max_retries = 3
    /\ ret.log = <<Http(0), Sleep(1), Http(1)>>
    /\ IsInvalidResponse(ret.out)

(* C7: a failure to write the cache (entry, catalogue load, catalogue       *)
(* update or catalogue save) never makes a fetch fail: once the API has     *)
(* answered with a list, fetch returns that list.                           *)
C7_CacheWriteFailureNeverAbortsFetch ==
    (FinalResponseReceived /\ ret.final.kind = "list")
        => ret.out = Return(ret.final.data)

(* The entry the call found is present, unexpired and unreadable as JSON,   *)
(* or was removed between the existence check and the read.                 *)
FoundCorruptEntry ==
    /\ ret.pre.kind # "absent"
    /\ ret.pre.age < ret.cfg.cache_ttl
    /\ \/ ret.pre.kind \in DamagedKinds
       \/ ret.io.read = "vanished"

(* C8: an entry that cannot be read back as JSON (empty, truncated, not     *)
(* JSON, undecodable bytes, or removed before the read) is a miss: with     *)
(* cache_only the fetch fails with CacheMiss, otherwise it goes to the      *)
(* network; the damage itself never surfaces as an error.                   *)
C8_CorruptEntryIsAMiss ==
    (Fetched /\ ret.cfg.use_cache /\ FoundCorruptEntry)
        => IF ret.cfg.cache_only
           THEN IsCacheMiss(ret.out)
           ELSE /\ ret.log # <<>>
                /\ ret.log[1] = Http(0)

(* The fetch ended with one of the client's three failures. *)
FetchEndedInFailure ==
    /\ Fetched
    /\ \/ IsCacheMiss(ret.out)
       \/ IsFetchFailed(ret.out)
       \/ IsInvalidResponse(ret.out)

(* The file as it is d seconds later when nothing has touched it. *)
Later(name, file, d) == Elapse((name :> file), d)[name]

(* C29: a fetch that ends in CacheMiss, FetchFailed or InvalidResponse      *)
(* leaves every file of the cache as it found it, the entry of its key and  *)
(* the catalogue included: nothing is created, replaced or deleted, and an  *)
(* expired entry of the key is still there.  Only the time the retries      *)
(* slept has passed.                                                        *)
C29_FailedFetchLeavesCacheAlone ==
    FetchEndedInFailure =>
        LET cache_file == get_cache_filename(ret.key)
            slept == SecondsSlept(ret.log)
        IN  /\ files[cache_file] = Later(cache_file, ret.pre, slept)
            /\ files[MetadataFile] = Later(MetadataFile, ret.premeta, slept)
            /\ \A n \in DOMAIN files \ {cache_file, MetadataFile} : ~Exists(files, n)

(* A fetch that found an expired entry and a catalogue, went to the API and *)
(* failed after its retries: the entry and the catalogue are still there.   *)
C29_Witness ==
    /\ FetchEndedInFailure
    /\ IsFetchFailed(ret.out)
    /\ ret.cfg.use_cache
    /\ ret.cfg.max_retries = 1
    /\ ret.pre.kind = "json"
    /\ ret.pre.age >= ret.cfg.cache_ttl
    /\ ret.premeta.kind = "json"
    /\ files[get_cache_filename(ret.key)].kind = "json"
    /\ files[MetadataFile].kind = "json"

----------------------------------------------------------------------------
(* Properties of the cache, stated on the record of the last call *)

Got == ret.op = "get"

(* C5: a get before ttl seconds have elapsed since the put of X under the   *)
(* same key, with no clear or later put under that key in between, returns  *)
(* X.                                                                       *)
C5_PutThenGetReturnsPayload ==
    (/\ Got
     /\ stored[ret.key] # NotStored
     /\ stored[ret.key].age < ret.ttl
     /\ ret.fault = "none")
        => ret.out = Return(PyData(stored[ret.key].data))

(* C6: get returns a payload only from an entry that exists and whose age   *)
(* is strictly below ttl; an entry of age ttl or more gives None; and get   *)
(* leaves the entry file as it found it, expired or not.                    *)
C6_ValidityByAgeAndGetNeverDeletes ==
    Got =>
        /\ (ret.out.kind = "return" /\ ret.out.value # PyNone)
              => /\ ret.pre.kind = "json"
                 /\ ret.pre.age < ret.ttl
                 /\ ret.out.value = PyData(ret.pre.doc)
        /\ (ret.pre.kind # "absent" /\ ret.pre.age >= ret.ttl)
              => ret.out = Return(PyNone)
        /\ (ret.pre.kind = "json" /\ ret.pre.age < ret.ttl /\ ret.fault = "none")
              => ret.out = Return(PyData(ret.pre.doc))
        /\ files[get_cache_filename(ret.key)] = ret.pre

C6_Witness ==
    /\ Got
    /\ ret.pre.kind = "json"
    /\ ret.pre.age = 1
    /\ ret.ttl = 1
    /\ ret.out = Return(PyNone)
    /\ files[get_cache_filename(ret.key)].kind = "json"

----------------------------------------------------------------------------
(* Properties of the range fetchers, stated on the record of the last call *)

RangeReturned ==
    /\ ret.op = "range"
    /\ ret.out.kind = "return"

KeysOf(schedules) == { schedule_key(schedules[i]) : i \in DOMAIN schedules }

NoRepeatedKey(schedules) ==
    \A i, j \in DOMAIN schedules :
        i # j => schedule_key(schedules[i]) # schedule_key(schedules[j])

(* C9: whatever the per-hour responses were (a channel appearing twice in   *)
(* one response, a schedule list repeating an entry), no channel of the     *)
(* dataset a range fetch returns holds two schedule entries with the same   *)
(* (programme pa_id, start_at) pair.                                        *)
C9_DedupKeyUniqueInMergedResult ==
    RangeReturned =>
        \A c \in DOMAIN ret.out.value : NoRepeatedKey(ret.out.value[c].schedules)

(* The last call merged exactly two hour-fetches. *)
TwoHourFetchesMerged ==
    /\ RangeReturned
    /\ ret.mode = "hours"
    /\ Len(ret.calls) = 2
    /\ \A i \in 1..2 : ret.calls[i].out.kind = "return"

(* Channel a of the first fetch and channel b of the second have the same   *)
(* identity and overlapping but not identical schedule lists.               *)
Overlapping(a, b) ==
    /\ a.pa_id = b.pa_id
    /\ a.slug = b.slug
    /\ KeysOf(a.schedules) \cap KeysOf(b.schedules) # {}
    /\ a.schedules # b.schedules

(* The schedule entries the response holds for the channel. *)
EntriesOf(data, pa_id) ==
    UNION { KeysOf(data[i].schedules) : i \in { n \in DOMAIN data : data[n].pa_id = pa_id } }

(* C10: merging two hour-fetches that both hold a channel of the same       *)
(* identity with overlapping but not identical schedule lists gives one     *)
(* channel of that identity, holding every entry of either input and no     *)
(* (provider id, start string) pair twice.                                  *)
C10_MergeIsUnionWithoutRepeats ==
    TwoHourFetchesMerged =>
        LET first == ret.calls[1].out.value
            second == ret.calls[2].out.value
            merged == ret.out.value
        IN  \A i \in DOMAIN first, j \in DOMAIN second :
                Overlapping(first[i], second[j]) =>
                    \E c \in DOMAIN merged :
                        /\ merged[c].pa_id = first[i].pa_id
                        /\ \A d \in DOMAIN merged :
                              merged[d].pa_id = merged[c].pa_id => d = c
                        /\ KeysOf(merged[c].schedules) =
                              EntriesOf(first, first[i].pa_id)
                              \cup EntriesOf(second, first[i].pa_id)
                        /\ NoRepeatedKey(merged[c].schedules)

(* The channel objects of the hours that returned, in the order the merge  *)
(* met them.                                                                *)
RECURSIVE Occurrences(_)
Occurrences(calls) ==
    IF calls = <<>> THEN <<>>
    ELSE (IF Head(calls).out.kind = "return" THEN Head(calls).out.value ELSE <<>>)
         \o Occurrences(Tail(calls))

(* The provider ids of the channels, each once, in first-encounter order. *)
RECURSIVE FirstEncounterOrder(_)
FirstEncounterOrder(occs) ==
    IF occs = <<>> THEN <<>>
    ELSE LET front == FirstEncounterOrder(SubSeq(occs, 1, Len(occs) - 1))
             last == occs[Len(occs)].pa_id
         IN  IF \E i \in DOMAIN front : front[i] = last
             THEN front
             ELSE Append(front, last)

FirstOccurrence(occs, pa_id) ==
    occs[CHOOSE i \in DOMAIN occs :
            /\ occs[i].pa_id = pa_id
            /\ \A j \in 1..(i - 1) : occs[j].pa_id # pa_id]

(* C11: the dataset a range fetch returns holds one record per channel      *)
(* provider id, in first-encounter order, with the metadata of the first    *)
(* occurrence; later occurrences only append to the first occurrence's      *)
(* schedule list, and only programmes whose key the list does not hold yet. *)
C11_FirstSeenWinsInRangeMerge ==
    RangeReturned =>
        LET occs == Occurrences(ret.calls)
            merged == ret.out.value
        IN  /\ [c \in DOMAIN merged |-> merged[c].pa_id] = FirstEncounterOrder(occs)
            /\ \A c \in DOMAIN merged :
                 LET first == FirstOccurrence(occs, merged[c].pa_id)
                     kept == Len(first.schedules)
                 IN  /\ merged[c].title = first.title
                     /\ merged[c].slug = first.slug
                     /\ Len(merged[c].schedules) >= kept
                     /\ SubSeq(merged[c].schedules, 1, kept) = first.schedules
                     /\ \A n \in (kept + 1)..Len(merged[c].schedules) :
                          schedule_key(merged[c].schedules[n])
                             \notin KeysOf(SubSeq(merged[c].schedules, 1, n - 1))

(* C11 without its last clause: what holds of the code as it is. *)
FirstSeenOrderAndMetadata ==
    RangeReturned =>
        LET occs == Occurrences(ret.calls)
            merged == ret.out.value
        IN  /\ [c \in DOMAIN merged |-> merged[c].pa_id] = FirstEncounterOrder(occs)
            /\ \A c \in DOMAIN merged :
                 LET first == FirstOccurrence(occs, merged[c].pa_id)
                     kept == Len(first.schedules)
                 IN  /\ merged[c].title = first.title
                     /\ merged[c].slug = first.slug
                     /\ Len(merged[c].schedules) >= kept
                     /\ SubSeq(merged[c].schedules, 1, kept) = first.schedules

(* The last call was a range fetch that reached its hour loop. *)
RangeRan(mode) ==
    /\ ret.op = "range"
    /\ ret.mode = mode
    /\ ret.calls # <<>>

(* Call n of the range failed, and not with a CacheMiss in cache-only mode. *)
FailedOtherwise(n) ==
    /\ ret.calls[n].out.kind = "raise"
    /\ ~(ret.cfg.cache_only /\ IsCacheMiss(ret.calls[n].out))

(* A range fetch that used the cache and the API was aborted by the        *)
(* FetchFailed or InvalidResponse of its last call of fetch_listings.       *)
AbortedOnLastHour ==
    /\ ret.op = "range"
    /\ ret.calls # <<>>
    /\ ret.cfg.use_cache
    /\ ~ret.cfg.cache_only
    /\ LET last == ret.calls[Len(ret.calls)].out
       IN  /\ IsFetchFailed(last) \/ IsInvalidResponse(last)
           /\ ret.out = last

(* What fetch_listings does for call n when the same range is run again on  *)
(* the cache as it is now, the API answering with the given failures and    *)
(* then with a payload that is no list.                                     *)
Rerun(n, failures) ==
    fetch_listings(files, ret.calls[n].key, ret.cfg,
                   Responses(ret.cfg.max_retries, failures, Resp("object")),
                   NoFaults)

(* C30: when a range fetch with use_cache is aborted on hour h by           *)
(* FetchFailed or InvalidResponse, every hour fetched before h has a valid  *)
(* entry holding what it returned, so running the same range again sends no *)
(* HTTP request for the hours before h and returns the same payloads for    *)
(* them, and sends its first request for hour h.                            *)
C30_AbortedRangeResumesFromCache ==
    AbortedOnLastHour =>
        /\ \A n \in 1..(Len(ret.calls) - 1), failures \in 0..1 :
              /\ HttpRequests(Rerun(n, failures).log) = {}
              /\ Rerun(n, failures).out = ret.calls[n].out
              /\ ret.calls[n].out.kind = "return"
        /\ \A failures \in 0..1 :
              HttpRequests(Rerun(Len(ret.calls), failures).log) # {}

(* A range over two days aborted by FetchFailed on its third hour or later, *)
(* whose first hour came from the API and a later one too.                  *)
C30_Witness ==
    /\ AbortedOnLastHour
    /\ ret.mode = "days"
    /\ Len(ret.calls) >= 3
    /\ IsFetchFailed(ret.out)
    /\ ret.calls[1].log # <<>>
    /\ ret.calls[Len(ret.calls) - 1].log # <<>>
    /\ ret.calls[1].key.date # ret.calls[Len(ret.calls)].key.date

(* The dataset holds what the hours that returned hold: the same channels,  *)
(* and for each channel the same schedule entries.                          *)
HoldsReturnedHours(merged, calls) ==
    LET occs == Occurrences(calls) IN
    /\ { merged[c].pa_id : c \in DOMAIN merged } = { occs[i].pa_id : i \in DOMAIN occs }
    /\ \A c \in DOMAIN merged :
          KeysOf(merged[c].schedules) = EntriesOf(occs, merged[c].pa_id)

(* C12: in cache-only mode fetch_multiple_hours passes over every hour      *)
(* whose fetch fails with CacheMiss and returns the merge of the others;    *)
(* any other failure of an hour, in either mode, ends the range fetch at    *)
(* that hour with that failure and no dataset.                              *)
C12_HourRangeSkipsCacheMissAbortsOtherwise ==
    RangeRan("hours") =>
        LET calls == ret.calls
            hours == ret.args.end_hour - ret.args.start_hour + 1
        IN  /\ \A n \in DOMAIN calls : calls[n].key.hour = ret.args.start_hour + n - 1
            /\ \A n \in DOMAIN calls :
                  FailedOtherwise(n) => /\ n = Len(calls)
                                        /\ ret.out = calls[n].out
            /\ (\A n \in DOMAIN calls : ~FailedOtherwise(n)) =>
                  /\ Len(calls) = hours
                  /\ ret.out.kind = "return"
                  /\ HoldsReturnedHours(ret.out.value, calls)
            /\ \A n \in DOMAIN calls :
                  IsCacheMiss(calls[n].out) => ret.cfg.cache_only

C12_Witness ==
    /\ RangeRan("hours")
    /\ ret.cfg.cache_only
    /\ Len(ret.calls) = 2
    /\ IsCacheMiss(ret.calls[1].out)
    /\ ret.calls[2].out = Return(PayloadB)
    /\ ret.out = Return(PayloadB)

(* A cache-only hour range that an unreadable entry ended. *)
CacheOnlyRangeAborted ==
    /\ RangeRan("hours")
    /\ ret.cfg.cache_only
    /\ Len(ret.calls) = 2
    /\ ret.calls[1].out.kind = "return"
    /\ FailedOtherwise(2)
    /\ ret.out.kind = "raise"

(* The calls of the range fetch for the day. *)
CallsOfDay(date) == { n \in DOMAIN ret.calls : ret.calls[n].key.date = date }

DaysOfRange == strptime(ret.args.start_date)..strptime(ret.args.end_date)

(* C13: in cache-only mode fetch_multiple_days passes over a day none of    *)
(* whose hours is cached and goes on with the following days, returning     *)
(* the merge of the days that have cached hours; any other failure ends     *)
(* the day range at that hour with that failure and no dataset.             *)
C13_DayRangeSkipsUncachedDayAbortsOtherwise ==
    RangeRan("days") =>
        LET calls == ret.calls
            hours == ret.args.end_hour - ret.args.start_hour + 1
        IN  /\ \A n \in DOMAIN calls :
                  FailedOtherwise(n) => /\ n = Len(calls)
                                        /\ ret.out = calls[n].out
            /\ (\A n \in DOMAIN calls : ~FailedOtherwise(n)) =>
                  /\ \A day \in DaysOfRange :
                        Cardinality(CallsOfDay(strftime(day))) = hours
                  /\ ret.out.kind = "return"
                  /\ HoldsReturnedHours(ret.out.value, calls)
            /\ \A n \in DOMAIN calls :
                  IsCacheMiss(calls[n].out) => ret.cfg.cache_only

C13_Witness ==
    /\ RangeRan("days")
    /\ ret.cfg.cache_only
    /\ DaysOfRange = 1..2
    /\ \A n \in CallsOfDay(strftime(1)) : IsCacheMiss(ret.calls[n].out)
    /\ \E n \in CallsOfDay(strftime(2)) : ret.calls[n].out.kind = "return"
    /\ ret.out.kind = "return"
    /\ ret.out.value # <<>>

(* The error of an inverted range: a ValueError that says which bound is    *)
(* wrong, and is none of the client's errors.                               *)
IsInvalidRange(out) ==
    /\ out.kind = "raise"
    /\ out.exc.type = "ValueError"
    /\ out.exc.text \in {InvalidHours, InvalidDates}
    /\ ~IsCacheMiss(out)
    /\ ~IsInvalidResponse(out)

(* The caller's start date is after its end date, both well-formed. *)
DatesInverted ==
    /\ ret.mode = "days"
    /\ ret.args.start_date = DateSeq[2]
    /\ ret.args.end_date = DateSeq[1]

DatesWellFormed ==
    ret.args.start_date \in {"2025-01-15", "2025-1-15", "2025-01-16"}

(* C14: fetch_multiple_hours with start_hour > end_hour, and                *)
(* fetch_multiple_days with start_date > end_date or start_hour > end_hour, *)
(* fail with the error of an inverted range without a single call of        *)
(* fetch_listings, hence without an HTTP request.                           *)
C14_InvertedRangeRejectedBeforeAnyRequest ==
    (/\ ret.op = "range"
     /\ DatesWellFormed
     /\ DatesInverted \/ ret.args.start_hour > ret.args.end_hour)
        => /\ IsInvalidRange(ret.out)
           /\ ret.calls = <<>>

C14_Witness ==
    /\ ret.op = "range"
    /\ ret.mode = "days"
    /\ ret.args.start_date = DateSeq[1]
    /\ ret.args.end_date = DateSeq[2]
    /\ ret.args.start_hour = 21
    /\ ret.args.end_hour = 20
    /\ ret.out = Raise(Exc("ValueError", InvalidHours, "None"))
    /\ ret.calls = <<>>

(* The (date, hour) pairs the last range fetch was asked for. *)
RequestedSlots ==
    slots(strptime(ret.args.start_date), strptime(ret.args.end_date),
          ret.args.start_hour, ret.args.end_hour)

RequestedKeys ==
    { Key("sky", "london", RequestedSlots[n][1], RequestedSlots[n][2]) :
        n \in DOMAIN RequestedSlots }

(* The cache holds an entry for the key from which a payload can be had:    *)
(* a complete file younger than the ttl.  A cache-only fetch writes         *)
(* nothing, so the files are those the fetch met.                           *)
HasValidEntry(key) ==
    /\ ret.cfg.use_cache
    /\ files[get_cache_filename(key)].kind = "json"
    /\ files[get_cache_filename(key)].age < ret.cfg.cache_ttl

(* The cache holds no file at all for the key, or the cache is not used. *)
HasNoEntry(key) ==
    \/ ~ret.cfg.use_cache
    \/ ~Exists(files, get_cache_filename(key))

CacheOnlyRangeRan ==
    /\ ret.op = "range"
    /\ ret.calls # <<>>
    /\ ret.cfg.cache_only

(* Every hour of the range was asked for and missed, and the range fetch    *)
(* returned the empty dataset.                                              *)
EveryHourMissed ==
    /\ Len(ret.calls) = Len(RequestedSlots)
    /\ \A n \in DOMAIN ret.calls : IsCacheMiss(ret.calls[n].out)
    /\ ret.out = Return(<<>>)

(* C28: a cache-only range fetch, of hours or of days, for which no         *)
(* requested (date, hour) has a valid cache entry returns the empty         *)
(* dataset and no error: every hour is a CacheMiss, which the hour loop     *)
(* passes over, so that none reaches the day loop.                          *)
C28_CacheOnlyRangeWithoutEntriesIsEmpty ==
    (CacheOnlyRangeRan /\ \A key \in RequestedKeys : ~HasValidEntry(key))
        => EveryHourMissed

(* The same when the cache holds no file for any requested hour. *)
EmptyDatasetWhenNothingStored ==
    (CacheOnlyRangeRan /\ \A key \in RequestedKeys : HasNoEntry(key))
        => EveryHourMissed

(* A cache-only day range over two days and two hours on a cache that       *)
(* holds other hours only.                                                  *)
NothingStoredForTheRange ==
    /\ CacheOnlyRangeRan
    /\ ret.mode = "days"
    /\ Len(RequestedSlots) = 2
    /\ ret.cfg.use_cache
    /\ \A key \in RequestedKeys : HasNoEntry(key)
    /\ \E key \in RangeKeys : Exists(files, get_cache_filename(key))
    /\ EveryHourMissed

----------------------------------------------------------------------------
(* Properties of the day merge *)

(* C15: merging the results of three days one after another gives the same  *)
(* dataset (channels, their order and metadata, their schedule lists) as    *)
(* merging the first day with the merge of the second and the third.        *)
C15_DayMergeAssociative ==
    (ret.op = "merge") =>
        ret.out = merge_days(<<>>, << ret.days[1],
                                      merge_days(<<>>, <<ret.days[2], ret.days[3]>>) >>)

C15_Witness ==
    /\ ret.op = "merge"
    /\ ret.days = << merge_channels(<<>>, PayloadE),
                     merge_channels(<<>>, PayloadD),
                     merge_channels(<<>>, PayloadB) >>
    /\ Len(ret.out) = 2
    /\ ret.out[1].title = "BBC One"
    /\ ret.out[1].schedules = <<E1, E3, E2>>

----------------------------------------------------------------------------
(* The order of the requests of a day range *)

(* No call of the range failed, skipped hours included. *)
ErrorFree ==
    \A n \in DOMAIN ret.calls : ret.calls[n].out.kind = "return"

FirstDay == IF ret.args.start_date = DateSeq[2] THEN 2 ELSE 1
LastDay == IF ret.args.end_date = DateSeq[2] THEN 2 ELSE 1

Before(a, b) ==
    \/ a.date = DateSeq[1] /\ b.date = DateSeq[2]
    \/ a.date = b.date /\ a.hour < b.hour

(* C16: a fetch_multiple_days without error calls fetch_listings once for   *)
(* every (day, hour) with day from start_date to end_date and hour from     *)
(* start_hour to end_hour, the same hours on every day, in strictly         *)
(* increasing (day, hour) order; a call's requests and sleeps are over      *)
(* when the next call begins.                                               *)
C16_DayRangeRequestsInOrder ==
    (RangeRan("days") /\ ErrorFree) =>
        LET calls == ret.calls IN
        /\ \A d \in FirstDay..LastDay, h \in ret.args.start_hour..ret.args.end_hour :
              Cardinality({ n \in DOMAIN calls :
                              /\ calls[n].key.date = DateSeq[d]
                              /\ calls[n].key.hour = h }) = 1
        /\ Len(calls) = (LastDay - FirstDay + 1)
                        * (ret.args.end_hour - ret.args.start_hour + 1)
        /\ \A n \in 1..(Len(calls) - 1) : Before(calls[n].key, calls[n + 1].key)
        /\ \A n \in DOMAIN calls :
              calls[n].log # <<>> =>
                 calls[n].log[Len(calls[n].log)] = Http(Len(calls[n].log) \div 2)
        /\ [n \in DOMAIN calls |-> <<calls[n].key.date, calls[n].key.hour>>]
              = slots(strptime(ret.args.start_date), strptime(ret.args.end_date),
                      ret.args.start_hour, ret.args.end_hour)

C16_Witness ==
    /\ RangeRan("days")
    /\ ErrorFree
    /\ ret.out.kind = "return"
    /\ [n \in DOMAIN ret.calls |-> <<ret.calls[n].key.date, ret.calls[n].key.hour>>]
          = << <<"2025-01-15", 20>>, <<"2025-01-15", 21>>,
               <<"2025-01-16", 20>>, <<"2025-01-16", 21>> >>
    /\ \E n \in DOMAIN ret.calls : ret.calls[n].log # <<>>

----------------------------------------------------------------------------
(* Properties of now mode *)

(* The (date, hour) slots from the hour of (now - 1 hour) through hour 23   *)
(* of the day of (now + days).                                              *)
SlotsOfWindow(now, days) ==
    LET first_day == IF now.hour = 0 THEN now.day - 1 ELSE now.day
        first_hour == IF now.hour = 0 THEN 23 ELSE now.hour - 1
        last_day == now.day + days
    IN  { <<Calendar[d], h>> : d \in first_day..last_day, h \in 0..23 }
          \ { <<Calendar[first_day], h>> : h \in 0..(first_hour - 1) }

(* C17: now mode requests every (date, hour) slot from the hour of          *)
(* (now - 1 hour) on the start date through hour 23 of the end date, no     *)
(* hour of a day in between left out.                                       *)
C17_NowModeRequestsWholeWindow ==
    (ret.op = "now") =>
        { ret.requested[k] : k \in DOMAIN ret.requested }
            = SlotsOfWindow(ret.now, ret.days)

----------------------------------------------------------------------------
(* The cache after a fetch from the network *)

FetchedFromNetwork ==
    /\ Fetched
    /\ ret.cfg.use_cache
    /\ ret.log # <<>>
    /\ ret.out.kind = "return"

(* The same fetch, issued d seconds later against the files as they are,    *)
(* returns the same payload without an HTTP request.                        *)
SameFetchHits(d) ==
    LET again == fetch_listings(Elapse(files, d), ret.key, ret.cfg,
                                Responses(ret.cfg.max_retries, 0, Resp("bad_json")),
                                NoFaults)
    IN  /\ again.out = ret.out
        /\ again.log = <<>>

CacheHoldsFetchedPayload ==
    /\ files[get_cache_filename(ret.key)].kind = "json"
    /\ files[get_cache_filename(ret.key)].doc = ret.out.value
    /\ \A d \in 0..(ret.cfg.cache_ttl - 1) : SameFetchHits(d)

(* C18, as stated: after a fetch with use_cache has returned a payload it   *)
(* got from the network, the cache holds that payload under the key, and    *)
(* the same fetch issued before the TTL has elapsed returns it without an   *)
(* HTTP request.                                                            *)
C18_FetchedPayloadIsCached ==
    FetchedFromNetwork => CacheHoldsFetchedPayload

(* C18, amended: the same, provided the write of the cache entry did not    *)
(* fail (a failed write is passed over in silence and leaves no entry).     *)
C18_FetchedPayloadIsCachedUnlessWriteFailed ==
    (FetchedFromNetwork /\ ret.io.entry = "none") => CacheHoldsFetchedPayload

C18_Witness ==
    /\ FetchedFromNetwork
    /\ ret.io.entry = "none"
    /\ ret.failures = 1
    /\ ret.pre.kind = "json"
    /\ ret.pre.doc # ret.out.value
    /\ CacheHoldsFetchedPayload

----------------------------------------------------------------------------
(* Properties of the converter *)

(* parse_json went through the dataset without error. *)
Parsed ==
    /\ ret.op = "convert"
    /\ ret.error = PyNone

(* The document was rendered and serialized. *)
Converted ==
    /\ ret.op = "convert"
    /\ ret.out.kind = "return"

(* The schedule entries of the dataset in the order parse meets them. *)
RECURSIVE SchedulesOf(_)
SchedulesOf(data) ==
    IF data = <<>> THEN <<>>
    ELSE Head(data).schedules \o SchedulesOf(Tail(data))

(* C19: every programme parse makes from a schedule entry of non-negative   *)
(* duration stops at or after its start, whatever the seconds of the start. *)
C19_StopNotBeforeStart ==
    Parsed =>
        LET schedules == SchedulesOf(ret.data) IN
        /\ Len(ret.programmes) = Len(schedules)
        /\ \A n \in DOMAIN ret.programmes :
              schedules[n].duration >= 0 =>
                 timestamp(ret.programmes[n].stop) >= timestamp(ret.programmes[n].start)

(* The identity of a channel object: its slug if it has one, else its       *)
(* provider id.                                                             *)
Identity(channel_data) ==
    IF "slug" \in DOMAIN channel_data
    THEN PyStr(channel_data.slug)
    ELSE PyInt(channel_data.pa_id)

(* C20: when the list given to parse holds two channel objects of the same  *)
(* identity, the one channel render emits for it carries the title and the  *)
(* logo of the first of them.                                               *)
C20_ConverterFirstSeenWins ==
    Converted =>
        \A i, j \in DOMAIN ret.data :
            (i < j /\ Identity(ret.data[i]) = Identity(ret.data[j])) =>
                LET emitted == { c \in DOMAIN ret.out.value.channels :
                                   PyStr(ret.out.value.channels[c].id)
                                      = Identity(ret.data[i]) }
                IN  /\ Cardinality(emitted) = 1
                    /\ \A c \in emitted :
                         /\ ret.out.value.channels[c].display_name = ret.data[i].title
                         /\ Get(ret.out.value.channels[c], "icon", "")
                               = Get(ret.data[i], "logo_url", "")

----------------------------------------------------------------------------
(* Properties of the cache's statistics and of clearing it *)

(* The entries the cache holds: the entry files present under cache_dir. *)
StoredEntries == { n \in EntryFiles : Exists(files, n) }

(* The cache directory holds nothing: no get finds an entry, whatever the   *)
(* key and the ttl, and stats counts no file.                               *)
HoldsNothing(fs) ==
    /\ \A key \in CachedKeys, ttl \in TTLChoices :
          get_cached_data(fs, key, ttl, "none") = Return(PyNone)
    /\ get_cache_stats(fs).files = 0

Cleared == ret.op = "clear"

(* The files whose deletion failed in the last clear. *)
NotDeleted == { n \in ret.undeletable : Exists(ret.pre, n) }

(* C25: a clear in which no deletion fails leaves a cache in which get      *)
(* finds nothing for any key and any ttl and stats counts 0, and so it      *)
(* stays until the next put; a clear in which the deletion of one file      *)
(* fails has deleted every other file.                                      *)
C25_ClearEmptiesTheCache ==
    /\ (Cleared /\ NotDeleted = {}) => HoldsNothing(files)
    /\ Cleared =>
          \A n \in DOMAIN files :
              IF n \in NotDeleted THEN files[n] = ret.pre[n] ELSE ~Exists(files, n)
    /\ (Got /\ \A n \in DOMAIN files : ~Exists(files, n))
          => ret.out = Return(PyNone)
    /\ (ret.op = "stats" /\ \A n \in DOMAIN files : ~Exists(files, n))
          => ret.out.files = 0

(* A clear of a cache that held two entries and its catalogue, in which     *)
(* the deletion of one entry failed: the other entry and the catalogue      *)
(* are gone.                                                                *)
C25_Witness ==
    /\ Cleared
    /\ Cardinality({ n \in EntryFiles : Exists(ret.pre, n) }) = 2
    /\ Exists(ret.pre, MetadataFile)
    /\ Cardinality(NotDeleted) = 1
    /\ NotDeleted \subseteq EntryFiles
    /\ Cardinality({ n \in DOMAIN files : Exists(files, n) }) = 1

(* C27: a put under one key leaves what get returns under every other key  *)
(* as it was, for every ttl, also when the platform or the region of the    *)
(* keys contains the separator '_'.                                         *)
C27_PutLeavesOtherKeysAlone ==
    [][ (ret = NoCall /\ ret'.op = "put") =>
           \A other \in CachedKeys \ {ret'.key}, ttl \in TTLChoices :
               get_cached_data(files', other, ttl, "none")
                  = get_cached_data(files, other, ttl, "none") ]_vars

(* C21: stats counts the stored entries and sums their sizes: after any     *)
(* puts and clears, the count is the number of cache entries present and    *)
(* the total is the sum of the sizes of exactly those entries.              *)
C21_StatsReportsStoredEntries ==
    ret.op = "stats" =>
        /\ ret.out.files = Cardinality(StoredEntries)
        /\ ret.out.total_size = Sum([n \in StoredEntries |-> getsize(files, n)])

----------------------------------------------------------------------------
(* Properties of a put and a get running side by side *)

(* C22: when a put of new data runs beside a get on an unexpired entry      *)
(* holding old data, the get obtains the complete old payload or the        *)
(* complete new payload, however the steps of the two interleave.           *)
C22_ReaderSeesOldOrNewPayload ==
    (/\ ret.op = "race"
     /\ ret.pre.kind = "json"
     /\ ret.pre.age < ret.ttl)
        => ret.out \in {Return(PyData(ret.pre.doc)), Return(PyData(ret.data))}

----------------------------------------------------------------------------
(* Properties of main, stated on the record of the last run *)

Ran == ret.op = "main"

(* The run ended with exit status 1 before it had a rendered document:      *)
(* while fetching, or in parse or render.                                   *)
FailedBeforeWriting ==
    /\ Ran
    /\ ret.exit = 1
    /\ ret.stage \in {"fetch", "convert"}

(* C23: a run in which fetching, parse or render fails leaves the output    *)
(* file as it was, absent or present; the output file changes only in a     *)
(* run that rendered the whole document, and a run that ends with status 0  *)
(* has written exactly that document.                                       *)
C23_NoOutputOnFatalError ==
    Ran =>
        /\ FailedBeforeWriting => ret.output = ret.env.output
        /\ (ret.output # ret.env.output) =>
              /\ ret.stage \in {"write", "done"}
              /\ convert_json(ret.json_data).kind = "return"
        /\ (ret.exit = 0) =>
              ret.output = OutputFile("xml", convert_json(ret.json_data).value, 0)

(* A listing fetched from the API fails in parse, and the output file that  *)
(* was there is still what it was.                                          *)
C23_Witness ==
    /\ FailedBeforeWriting
    /\ ret.stage = "convert"
    /\ ret.plan = "now"
    /\ Len(ret.calls) > 1
    /\ ret.env.output = OldOutput
    /\ ret.output = OldOutput

(* The fetch a command line of the usage text stands for: the fetcher and   *)
(* the range handed to it.                                                  *)
DocumentedFetch(args, now) ==
    CASE args = DocSingleHour ->
            [fetcher |-> "fetch_listings",
             window |-> <<args.date, args.date, args.hour, args.hour>>]
      [] args = DocHourRange ->
            [fetcher |-> "fetch_multiple_hours",
             window |-> <<args.date, args.date, args.start_hour, args.end_hour>>]
      [] args = DocDayRange ->
            [fetcher |-> "fetch_multiple_days",
             window |-> <<args.start_date, args.end_date,
                          args.start_hour, args.end_hour>>]
      [] OTHER ->
            [fetcher |-> "fetch_multiple_days",
             window |-> calculate_now_range(now, args.now_days)]

(* C24: the command lines of the usage text that fetch from the API pass    *)
(* the validation of the arguments and call the fetcher they stand for:     *)
(* single hour, hour range, day range, now window.                          *)
C24_DocumentedCommandLinesFetch ==
    (Ran /\ ret.args \in {DocSingleHour, DocHourRange, DocDayRange, DocNow, DocNowDays})
        => /\ ret.complaint = "ok"
           /\ ret.fetcher = DocumentedFetch(ret.args, ret.env.now).fetcher
           /\ ret.window = DocumentedFetch(ret.args, ret.env.now).window

----------------------------------------------------------------------------
(* Properties of the rendered document *)

(* The identities of the channel objects of the dataset in the order parse  *)
(* first meets them.                                                        *)
RECURSIVE FirstSeen(_, _)
FirstSeen(data, seen) ==
    IF data = <<>> THEN seen
    ELSE FirstSeen(Tail(data),
                   IF \E i \in DOMAIN seen : seen[i] = Identity(Head(data))
                   THEN seen
                   ELSE Append(seen, Identity(Head(data))))

(* For every schedule entry of the dataset, in the order parse meets them,  *)
(* the identity of the channel object that holds it.                        *)
RECURSIVE OwnersOf(_)
OwnersOf(data) ==
    IF data = <<>> THEN <<>>
    ELSE [i \in DOMAIN Head(data).schedules |-> Identity(Head(data))]
         \o OwnersOf(Tail(data))

(* C26: render emits one channel element for every distinct channel         *)
(* identity, in the order in which parse first saw the identities, and      *)
(* after them one programme element for every schedule entry, in the order  *)
(* in which parse met the entries, whatever their start times.              *)
C26_ChannelsOncePerIdentityInParseOrder ==
    Converted =>
        LET identities == FirstSeen(ret.data, <<>>)
            schedules == SchedulesOf(ret.data)
            channels == ret.out.value.channels
            programmes == ret.out.value.programmes
        IN  /\ Len(channels) = Len(identities)
            /\ \A i \in DOMAIN channels : PyStr(channels[i].id) = identities[i]
            /\ \A i, j \in DOMAIN channels : i # j => channels[i].id # channels[j].id
            /\ Len(programmes) = Len(schedules)
            /\ \A n \in DOMAIN programmes :
                  /\ programmes[n].title = schedules[n].title
                  /\ PyStr(programmes[n].channel) = OwnersOf(ret.data)[n]
                  /\ programmes[n].start
                        = format_xmltv_time(fromisoformat(schedules[n].start_at))

(* A dataset in which a channel comes back after another one, with a       *)
(* later programme ahead of an earlier one.                                 *)
C26_Witness ==
    /\ Converted
    /\ Len(ret.data) = 3
    /\ Identity(ret.data[1]) = Identity(ret.data[3])
    /\ Identity(ret.data[1]) # Identity(ret.data[2])
    /\ Len(ret.out.value.channels) = 2
    /\ Len(ret.out.value.programmes) >= 3
    /\ ret.programmes[1].start.min > ret.programmes[2].start.min

=============================================================================
